---- MODULE Spec2Model ----
(***************************************************************************)
(* A model of the terminal file manager: the App focus router, the file    *)
(* explorer with its modal and deferred tasks, the text editor and the     *)
(* filesystem they act on.  A key event is one step (src/src/main.rs:45-61 *)
(* hands every key press to App::handle_input and processes it whole).     *)
(*                                                                         *)
(* Text (String, PathBuf) is a sequence of one-character strings.  A key   *)
(* code is a string: one character for KeyCode::Char(c), the variant's     *)
(* name ("Enter", "Esc", ...) otherwise.                                   *)
(***************************************************************************)
EXTENDS Integers, Sequences, FiniteSets, TLC

VARIABLES
    explorer,       \* App.explorer: the interactive FileExplorer
    editors,        \* App.editors: [preview, text, null]
    info_message,   \* App.info_message: NoMessage or the error text
    legend,         \* the command ids last handed to Legend::update_command_bindings
    should_stop,    \* App.should_stop
    disk,           \* the filesystem: canonical path -> node
    panicked,       \* the process aborted on a Rust panic
    event           \* what the last key event did (history, not program state)

vars == <<explorer, editors, info_message, legend, should_stop, disk, panicked, event>>

----------------------------------------------------------------------------
(* Bounds of the model. *)

\* A buffer grows by typing to at most this many characters.
MaxText == 2
\* A buffer grows by Enter to at most this many lines.
MaxLines == 2
\* The answer of a Question modal grows by typing to at most this many characters.
MaxAnswer == 2

----------------------------------------------------------------------------
(* Characters and text. *)

\* let x = v in F(x): the value v, computed once, handed to F.
With(v, F(_)) == F(v)

NL == "\n"

\* The characters of the model in byte order (str::cmp compares bytes).
CharOrder ==
    <<"\n", "/", "0", "1", "2", "3", "4", "A", "a", "b", "c", "d", "h", "i", "j", "k", "l", "m",
      "n", "q", "s", "x", "y">>

Ord(c) == CHOOSE i \in 1..Len(CharOrder) : CharOrder[i] = c

RECURSIVE StrLess(_, _)
StrLess(a, b) ==
    IF b = <<>> THEN FALSE
    ELSE IF a = <<>> THEN TRUE
    ELSE IF Head(a) # Head(b) THEN Ord(Head(a)) < Ord(Head(b))
    ELSE StrLess(Tail(a), Tail(b))

EndsWith(s, c) == Len(s) > 0 /\ s[Len(s)] = c

\* str::split(sep): the pieces between separators; "" splits into [""].
RECURSIVE SplitAcc(_, _, _)
SplitAcc(s, sep, cur) ==
    IF s = <<>> THEN <<cur>>
    ELSE IF Head(s) = sep THEN <<cur>> \o SplitAcc(Tail(s), sep, <<>>)
    ELSE SplitAcc(Tail(s), sep, Append(cur, Head(s)))

\* A faulty split, as str::lines does it: a final empty piece is dropped.
Split_dropping_last(s, sep) ==
    With(SplitAcc(s, sep, <<>>),
         LAMBDA pieces :
            IF Len(pieces) > 1 /\ pieces[Len(pieces)] = <<>>
            THEN SubSeq(pieces, 1, Len(pieces) - 1) ELSE pieces)

Split(s, sep) == SplitAcc(s, sep, <<>>)

\* [String]::join(sep): the empty list joins to "".
RECURSIVE Join(_, _)
Join(ls, sep) ==
    IF ls = <<>> THEN <<>>
    ELSE IF Len(ls) = 1 THEN ls[1]
    ELSE ls[1] \o <<sep>> \o Join(Tail(ls), sep)

\* str::contains
Contains(s, sub) ==
    \E i \in 0..(Len(s) - Len(sub)) : SubSeq(s, i + 1, i + Len(sub)) = sub

----------------------------------------------------------------------------
(* Paths and the filesystem.  A node is a directory or a file; a file has  *)
(* its bytes as text and is valid UTF-8 or not.                            *)

NoPath == <<>>              \* PathBuf::new(), and Option::None of a path
Root == <<"/">>
ProcessDir == Root          \* std::env::current_dir() of the process

LastSlash(p) ==
    IF \E i \in 1..Len(p) : p[i] = "/"
    THEN CHOOSE i \in 1..Len(p) : p[i] = "/" /\ \A j \in (i + 1)..Len(p) : p[j] # "/"
    ELSE 0

\* Path::parent of a canonical path (None for the root and the empty path).
Parent(p) ==
    IF p = Root \/ p = NoPath THEN NoPath
    ELSE IF LastSlash(p) <= 1 THEN (IF LastSlash(p) = 1 THEN Root ELSE NoPath)
    ELSE SubSeq(p, 1, LastSlash(p) - 1)

\* Path::file_name of a canonical path.
FileName(p) == SubSeq(p, LastSlash(p) + 1, Len(p))

\* PathBuf::join: an absolute right-hand side replaces the left one.
JoinPath(dir, name) ==
    IF Len(name) > 0 /\ name[1] = "/" THEN name
    ELSE IF EndsWith(dir, "/") \/ dir = <<>> THEN dir \o name
    ELSE dir \o <<"/">> \o name

\* The non-empty components of a path string.
Components(p) == SelectSeq(Split(p, "/"), LAMBDA c : c # <<>>)

RECURSIVE FromComponents(_)
FromComponents(cs) ==
    IF cs = <<>> THEN <<>> ELSE <<"/">> \o Head(cs) \o FromComponents(Tail(cs))

\* How the operating system resolves a path string: relative to the process
\* directory unless absolute, repeated and trailing separators dropped.
Resolve(p) ==
    IF p = <<>> THEN NoPath
    ELSE With(Components(IF p[1] = "/" THEN p ELSE JoinPath(ProcessDir, p)),
              LAMBDA cs : IF cs = <<>> THEN Root ELSE FromComponents(cs))

DirNode == [kind |-> "dir", text |-> <<>>, utf8 |-> TRUE]
FileNode(t) == [kind |-> "file", text |-> t, utf8 |-> TRUE]
BinaryNode == [kind |-> "file", text |-> <<>>, utf8 |-> FALSE]

Exists(d, p) == Resolve(p) \in DOMAIN d
IsDir(d, p) == Exists(d, p) /\ d[Resolve(p)].kind = "dir"
IsFile(d, p) == Exists(d, p) /\ d[Resolve(p)].kind = "file"

\* A path names a file only if it does not end in a separator.
NamesFile(p) == p # <<>> /\ ~EndsWith(p, "/")

Children(d, dir) == {q \in DOMAIN d : q # Root /\ Parent(q) = Resolve(dir)}
\* q is p or lies below p.
Under(q, p) ==
    /\ Len(q) >= Len(p)
    /\ SubSeq(q, 1, Len(p)) = p
    /\ (Len(q) = Len(p) \/ q[Len(p) + 1] = "/")

Subtree(d, p) == {q \in DOMAIN d : Under(q, p)}

\* Ord for PathBuf: component by component.
RECURSIVE CompsLess(_, _)
CompsLess(a, b) ==
    IF b = <<>> THEN FALSE
    ELSE IF a = <<>> THEN TRUE
    ELSE IF Head(a) # Head(b) THEN StrLess(Head(a), Head(b))
    ELSE CompsLess(Tail(a), Tail(b))

PathLess(a, b) == CompsLess(Components(a), Components(b))

\* Vec::sort of a set of distinct paths.
RECURSIVE SortPaths(_)
SortPaths(ps) ==
    IF ps = {} THEN <<>>
    ELSE With(CHOOSE x \in ps : \A y \in ps \ {x} : PathLess(x, y),
              LAMBDA m : <<m>> \o SortPaths(ps \ {m}))

RemoveKeys(d, ks) == [q \in (DOMAIN d) \ ks |-> d[q]]
PutNode(d, p, n) == [q \in (DOMAIN d) \cup {p} |-> IF q = p THEN n ELSE d[q]]

\* fs::read_dir(dir) collected and sorted, or the error.
read_dir_entries(d, dir) ==
    IF IsDir(d, dir)
    THEN [ok |-> TRUE, entries |-> SortPaths({JoinPath(dir, FileName(q)) : q \in Children(d, dir)})]
    ELSE [ok |-> FALSE, entries |-> <<>>]

\* fs::read_to_string
fs_read_to_string(d, p) ==
    IF IsFile(d, p) /\ d[Resolve(p)].utf8
    THEN [ok |-> TRUE, text |-> d[Resolve(p)].text]
    ELSE [ok |-> FALSE, text |-> <<>>]

\* fs::write: creates or truncates the file; io is the device's answer.
fs_write(d, p, t, io) ==
    IF io /\ NamesFile(p) /\ IsDir(d, Parent(Resolve(p))) /\ ~IsDir(d, p)
    THEN [ok |-> TRUE, disk |-> PutNode(d, Resolve(p), FileNode(t))]
    ELSE [ok |-> FALSE, disk |-> d]

\* fs::File::create / fs::create_dir of a path that does not exist.
fs_create(d, p, io) ==
    IF io /\ p # <<>> /\ ~Exists(d, p) /\ Resolve(p) # Root /\ IsDir(d, Parent(Resolve(p)))
    THEN [ok |-> TRUE,
          disk |-> PutNode(d, Resolve(p), IF EndsWith(p, "/") THEN DirNode ELSE FileNode(<<>>))]
    ELSE [ok |-> FALSE, disk |-> d]

\* fs::remove_file / fs::remove_dir_all
fs_remove(d, p, io) ==
    IF io /\ Exists(d, p) /\ Resolve(p) # Root
    THEN [ok |-> TRUE, disk |-> RemoveKeys(d, Subtree(d, Resolve(p)))]
    ELSE [ok |-> FALSE, disk |-> d]

\* fs::rename of the node f to the place t, the two paths resolved.
RenameNode(d, from, to, io, f, t) ==
    IF ~(io /\ Exists(d, from) /\ to # <<>> /\ f # Root /\ t # Root) THEN [ok |-> FALSE, disk |-> d]
    ELSE IF f = t THEN [ok |-> (IsDir(d, from) \/ NamesFile(to)), disk |-> d]
    ELSE IF ~IsDir(d, Parent(t)) \/ Under(t, f) THEN [ok |-> FALSE, disk |-> d]
    ELSE IF IsFile(d, from) /\ (~NamesFile(to) \/ IsDir(d, to)) THEN [ok |-> FALSE, disk |-> d]
    ELSE IF IsDir(d, from) /\ Exists(d, to) /\ (IsFile(d, to) \/ Children(d, t) # {})
         THEN [ok |-> FALSE, disk |-> d]
    ELSE [ok |-> TRUE,
          disk |-> [q \in ((DOMAIN d) \ (Subtree(d, f) \cup Subtree(d, t)))
                            \cup {t \o SubSeq(x, Len(f) + 1, Len(x)) : x \in Subtree(d, f)} |->
                      IF Under(q, t) THEN d[f \o SubSeq(q, Len(t) + 1, Len(q))] ELSE d[q]]]

\* fs::rename: the node (with its subtree) moves; a file may replace a file.
fs_rename(d, from, to, io) == RenameNode(d, from, to, io, Resolve(from), Resolve(to))

----------------------------------------------------------------------------
(* The text editor (src/src/text_editor.rs).  Lines and characters are     *)
(* indexed from 0 as in the source; lines[i + 1] is line i.                *)

NoMessage == "None"

CursorPosition_new == [line |-> 0, char |-> 0]

TextEditor_new ==
    [cursor_position |-> [line |-> 0, char |-> 0],
     is_focused |-> FALSE,
     file |-> NoPath,
     lines |-> <<>>,
     mode |-> "View",
     file_saved |-> TRUE,
     modal_open |-> FALSE]

CurLine(te) == te.lines[te.cursor_position.line + 1]

SetChar(te, c) == [te EXCEPT !.cursor_position.char = c]

\* A faulty next_char: at the end of a line the cursor goes to the start of
\* the next line.
TextEditor_next_char_wrapping(te) ==
    IF Len(te.lines) > 0 /\ te.cursor_position.char < Len(CurLine(te))
    THEN SetChar(te, te.cursor_position.char + 1)
    ELSE IF te.cursor_position.line + 1 < Len(te.lines)
    THEN [te EXCEPT !.cursor_position = [line |-> @.line + 1, char |-> 0]]
    ELSE te

TextEditor_next_char(te) ==
    IF Len(te.lines) > 0 /\ te.cursor_position.char < Len(CurLine(te))
    THEN SetChar(te, te.cursor_position.char + 1)
    ELSE te

\* A faulty prev_char: the cursor stays where it is.
TextEditor_prev_char_staying(te) == te

TextEditor_prev_char(te) ==
    IF Len(te.lines) > 0 /\ te.cursor_position.char > 0
    THEN SetChar(te, te.cursor_position.char - 1)
    ELSE te

\* A faulty clamp: the column is carried to the new line as it is.
ClampChar_unclamped(te) == te

\* The clamp shared by next_line and prev_line (lines 87-94 and 102-109).
ClampChar(te) ==
    IF Len(CurLine(te)) > 0
    THEN (IF te.cursor_position.char > Len(CurLine(te)) - 1
          THEN SetChar(te, Len(CurLine(te)) - 1)
          ELSE te)
    ELSE SetChar(te, 0)

TextEditor_next_line(te) ==
    IF te.cursor_position.line + 1 < Len(te.lines)
    THEN ClampChar([te EXCEPT !.cursor_position.line = @ + 1])
    ELSE te

TextEditor_prev_line(te) ==
    IF te.cursor_position.line > 0
    THEN ClampChar([te EXCEPT !.cursor_position.line = @ - 1])
    ELSE te

TextEditor_get_text(te) == Join(te.lines, NL)

FsOp(op, path, to, ok) == [op |-> op, path |-> path, to |-> to, ok |-> ok]

\* save: the flag is set first and the result of fs::write is dropped.
\* Returns the editor, the filesystem and the write attempted.
TextEditor_save(te, d, io) ==
    With(fs_write(d, te.file, TextEditor_get_text(te), io),
         LAMBDA written :
            [te |-> [te EXCEPT !.file_saved = TRUE],
             disk |-> written.disk,
             ops |-> <<FsOp("write", te.file, NoPath, written.ok)>>])

TextEditor_edit_mode(te) == [te EXCEPT !.mode = "Edit"]

\* go_back: the editor and whether the key was consumed.
\* A faulty go_back: in Edit mode the key is not consumed and the mode stays.
TextEditor_go_back_from_edit(te) ==
    IF te.mode = "View"
    THEN (IF te.file_saved
          THEN [te |-> te, ret |-> FALSE]
          ELSE [te |-> [te EXCEPT !.modal_open = TRUE], ret |-> TRUE])
    ELSE [te |-> te, ret |-> FALSE]

TextEditor_go_back(te) ==
    IF te.mode = "View"
    THEN (IF te.file_saved
          THEN [te |-> te, ret |-> FALSE]
          ELSE [te |-> [te EXCEPT !.modal_open = TRUE], ret |-> TRUE])
    ELSE [te |-> [te EXCEPT !.mode = "View"], ret |-> TRUE]

\* A faulty removal: the character after index i goes instead.
RemoveAt_next(str, i) == SubSeq(str, 1, i + 1) \o SubSeq(str, i + 3, Len(str))

\* A faulty line insertion: the new line is put first.
InsertLine_first(ls, i, l) == <<l>> \o ls

InsertAt(str, i, c) == SubSeq(str, 1, i) \o <<c>> \o SubSeq(str, i + 1, Len(str))
RemoveAt(str, i) == SubSeq(str, 1, i) \o SubSeq(str, i + 2, Len(str))   \* i from 0
RemoveLine(ls, i) == SubSeq(ls, 1, i) \o SubSeq(ls, i + 2, Len(ls))     \* i from 0
InsertLine(ls, i, l) == SubSeq(ls, 1, i) \o <<l>> \o SubSeq(ls, i + 1, Len(ls))

SpecialKeys == {"Enter", "Esc", "Backspace", "Delete", "Up", "Down", "Left", "Right"}
IsChar(key_code) == key_code \notin SpecialKeys

\* insert indexes self.lines[cursor.line] before it looks at the key.
InsertPanics(te) == te.cursor_position.line >= Len(te.lines)

\* A faulty merge: the next line is appended and stays in the buffer.
MergeNext_keeping(te) ==
    [te EXCEPT !.lines[te.cursor_position.line + 1] = @ \o te.lines[te.cursor_position.line + 2]]

\* Lines 171-176 and 160-165: line next_li is appended to line li and removed.
MergeNext(te) ==
    [te EXCEPT !.lines = RemoveLine([@ EXCEPT ![te.cursor_position.line + 1] =
                                                @ \o te.lines[te.cursor_position.line + 2]],
                                    te.cursor_position.line + 1)]

\* insert after the flag is cleared (lines 138-194).
InsertKey(te, key_code) ==
    LET line == CurLine(te)
        li   == te.cursor_position.line
        ci   == te.cursor_position.char
    IN  IF IsChar(key_code)
        THEN TextEditor_next_char([te EXCEPT !.lines[li + 1] = InsertAt(@, ci, key_code)])
        ELSE IF key_code = "Backspace" /\ Len(line) > 0 /\ ci >= 1
        THEN TextEditor_prev_char([te EXCEPT !.lines[li + 1] = RemoveAt(@, ci - 1)])
        ELSE IF key_code = "Delete" /\ Len(line) > 0 /\ ci < Len(line)
        THEN [te EXCEPT !.lines[li + 1] = RemoveAt(@, ci)]
        ELSE IF key_code = "Backspace" /\ li > 0 /\ ci = 0
        THEN With(TextEditor_prev_line(te), LAMBDA up : MergeNext(SetChar(up, Len(CurLine(up)))))
        ELSE IF key_code = "Delete" /\ li < Len(te.lines) - 1 /\ ci = Len(line)
        THEN MergeNext(te)
        ELSE IF key_code = "Enter"
        THEN With(TextEditor_next_line([te EXCEPT !.lines = InsertLine(@, li + 1, <<>>)]),
                  LAMBDA opened :
                     IF ci # Len(opened.lines[li + 1])
                     THEN [opened EXCEPT !.lines[li + 1] = SubSeq(line, 1, ci),
                                         !.lines[li + 2] = SubSeq(line, ci + 1, Len(line))]
                     ELSE opened)
        ELSE te

TextEditor_insert(te0, key_code) == InsertKey([te0 EXCEPT !.file_saved = FALSE], key_code)

\* Editor::set_path: the path is stored before the file is read.
TextEditor_set_path(te, d, path) ==
    With(fs_read_to_string(d, path),
         LAMBDA read :
            IF read.ok
            THEN [ok |-> TRUE, err |-> NoMessage,
                  te |-> [te EXCEPT !.file = path,
                                    !.lines = Split(read.text, NL),
                                    !.cursor_position = CursorPosition_new,
                                    !.file_saved = TRUE]]
            ELSE [ok |-> FALSE, err |-> "Binary file", te |-> [te EXCEPT !.file = path]])

TextEditor_confirm_modal(te, d, io) ==
    TextEditor_save([te EXCEPT !.modal_open = FALSE], d, io)

TextEditor_refuse_modal(te, d) ==
    TextEditor_set_path([te EXCEPT !.modal_open = FALSE], d, te.file).te


----------------------------------------------------------------------------
(* Bindings and command dispatch (src/src/binding.rs, src/src/command.rs). *)
(* A command id "owner.action" is the pair <<owner, action>>.              *)

Binding(owner, action, key_code) == [command_id |-> <<owner, action>>, key_code |-> key_code]

\* A faulty table: Enter is bound twice in the explorer's namespace.
get_bindings_duplicated ==
    << Binding("app", "quit", "q"),
       Binding("app", "open_selected_file", "Enter"),
       Binding("app", "go_back", "Esc"),
       Binding("explorer", "select_previous_file", "Up"),
       Binding("explorer", "select_next_file", "Down"),
       Binding("explorer", "select_previous_file", "k"),
       Binding("explorer", "select_next_file", "j"),
       Binding("explorer", "open_selected_file", "Enter"),
       Binding("explorer", "delete_current_file", "d"),
       Binding("explorer", "move_current_file", "m"),
       Binding("explorer", "filter", "/"),
       Binding("explorer", "go_back", "Esc"),
       Binding("explorer", "go_back", "Enter"),
       Binding("text_editor", "next_char", "l"),
       Binding("text_editor", "prev_char", "h"),
       Binding("text_editor", "next_line", "j"),
       Binding("text_editor", "prev_line", "k"),
       Binding("text_editor", "save", "s"),
       Binding("text_editor", "insert_mode", "i"),
       Binding("text_editor", "go_back", "Esc") >>

get_bindings ==
    << Binding("app", "quit", "q"),
       Binding("app", "open_selected_file", "Enter"),
       Binding("app", "go_back", "Esc"),
       Binding("explorer", "select_previous_file", "Up"),
       Binding("explorer", "select_next_file", "Down"),
       Binding("explorer", "select_previous_file", "k"),
       Binding("explorer", "select_next_file", "j"),
       Binding("explorer", "open_selected_file", "Enter"),
       Binding("explorer", "delete_current_file", "d"),
       Binding("explorer", "move_current_file", "m"),
       Binding("explorer", "filter", "/"),
       Binding("explorer", "go_back", "Esc"),
       Binding("text_editor", "next_char", "l"),
       Binding("text_editor", "prev_char", "h"),
       Binding("text_editor", "next_line", "j"),
       Binding("text_editor", "prev_line", "k"),
       Binding("text_editor", "save", "s"),
       Binding("text_editor", "insert_mode", "i"),
       Binding("text_editor", "go_back", "Esc") >>

NoCommand == <<>>

\* The first element of a sequence that satisfies Test, as a sequence of 0 or 1.
FindFirst(seq, Test(_)) ==
    With(SelectSeq(seq, Test), LAMBDA hits : IF hits = <<>> THEN <<>> ELSE <<Head(hits)>>)

\* A faulty dispatch: the binding is looked up by key alone, in any namespace.
Handle_any_owner(name, commands, key_code) ==
    With(FindFirst(get_bindings, LAMBDA b : b.key_code = key_code),
         LAMBDA binding_option :
            IF binding_option # <<>>
            THEN With(FindFirst(commands, LAMBDA c : c[2] = binding_option[1].command_id[2]),
                      LAMBDA command_option :
                         IF command_option # <<>> THEN command_option[1] ELSE NoCommand)
            ELSE NoCommand)

\* CommandHandler::handle up to the call: the id of the command it invokes,
\* or NoCommand when it returns false without invoking one.
Handle(name, commands, key_code) ==
    With(FindFirst(get_bindings, LAMBDA b : b.command_id[1] = name /\ b.key_code = key_code),
         LAMBDA binding_option :
            IF binding_option # <<>>
            THEN With(FindFirst(commands, LAMBDA c : c = binding_option[1].command_id),
                      LAMBDA command_option :
                         IF command_option # <<>> THEN command_option[1] ELSE NoCommand)
            ELSE NoCommand)

----------------------------------------------------------------------------
(* Modals (src/src/modal.rs, src/src/modal_variants.rs).  on_confirm is    *)
(* the closure built when the modal is opened: the task it will send and   *)
(* the path it captured.                                                   *)

NoClosure == [op |-> "None", path |-> NoPath]
Closure(op, path) == [op |-> op, path |-> path]

Task(op, path, text, index) == [op |-> op, path |-> path, text |-> text, index |-> index]

Modal_new(variant, message, answer, options, on_confirm) ==
    [is_open |-> TRUE, variant |-> variant, message |-> message, answer |-> answer,
     options |-> options, selected_index |-> 0, on_confirm |-> on_confirm]

InfoVariant_new(message) == Modal_new("Info", message, <<>>, 0, NoClosure)

Modal_close(m) == [m EXCEPT !.is_open = FALSE]

\* What the closure sends on the channel when it is called with an argument.
CallWith(on_confirm, text, index) == <<Task(on_confirm.op, on_confirm.path, text, index)>>

\* A faulty Info modal: 'n' dismisses it as well.
InfoVariant_closing_on_n(m, key_code) ==
    IF key_code \in {"y", "n"} THEN [modal |-> Modal_close(m), sent |-> <<>>]
    ELSE [modal |-> m, sent |-> <<>>]

InfoVariant_handle_input(m, key_code) ==
    IF key_code = "y" THEN [modal |-> Modal_close(m), sent |-> <<>>]
    ELSE [modal |-> m, sent |-> <<>>]

\* A faulty Question: Esc sends the task as Enter does.
QuestionVariant_sending_on_esc(m, key_code) ==
    IF key_code = "Backspace"
    THEN [modal |-> [m EXCEPT !.answer = SubSeq(@, 1, Len(@) - 1)], sent |-> <<>>]
    ELSE IF IsChar(key_code)
    THEN [modal |-> [m EXCEPT !.answer = Append(@, key_code)], sent |-> <<>>]
    ELSE IF key_code \in {"Enter", "Esc"}
    THEN [modal |-> Modal_close(m), sent |-> CallWith(m.on_confirm, m.answer, 0)]
    ELSE [modal |-> m, sent |-> <<>>]

\* A faulty Question modal: Backspace removes the first character.
QuestionVariant_popping_front(m, key_code) ==
    IF key_code = "Backspace"
    THEN [modal |-> [m EXCEPT !.answer = SubSeq(@, 2, Len(@))], sent |-> <<>>]
    ELSE IF IsChar(key_code)
    THEN [modal |-> [m EXCEPT !.answer = Append(@, key_code)], sent |-> <<>>]
    ELSE IF key_code = "Enter"
    THEN [modal |-> Modal_close(m), sent |-> CallWith(m.on_confirm, m.answer, 0)]
    ELSE IF key_code = "Esc"
    THEN [modal |-> Modal_close(m), sent |-> <<>>]
    ELSE [modal |-> m, sent |-> <<>>]

QuestionVariant_handle_input(m, key_code) ==
    IF key_code = "Backspace"
    THEN [modal |-> [m EXCEPT !.answer = SubSeq(@, 1, Len(@) - 1)], sent |-> <<>>]
    ELSE IF IsChar(key_code)
    THEN [modal |-> [m EXCEPT !.answer = Append(@, key_code)], sent |-> <<>>]
    ELSE IF key_code = "Enter"
    THEN [modal |-> Modal_close(m), sent |-> CallWith(m.on_confirm, m.answer, 0)]
    ELSE IF key_code = "Esc"
    THEN [modal |-> Modal_close(m), sent |-> <<>>]
    ELSE [modal |-> m, sent |-> <<>>]

ConfirmationVariant_handle_input(m, key_code) ==
    IF key_code = "y"
    THEN [modal |-> Modal_close(m), sent |-> CallWith(m.on_confirm, <<>>, 0)]
    ELSE IF key_code = "n"
    THEN [modal |-> Modal_close(m), sent |-> <<>>]
    ELSE [modal |-> m, sent |-> <<>>]

\* c.to_string().parse::<usize>().unwrap_or(0) of one character.
ParseDigit(c) ==
    CASE c = "1" -> 1 [] c = "2" -> 2 [] c = "3" -> 3 [] c = "4" -> 4 [] c = "5" -> 5
      [] c = "6" -> 6 [] c = "7" -> 7 [] c = "8" -> 8 [] c = "9" -> 9 [] OTHER -> 0

\* A faulty Options modal: any character that is not a digit above the
\* number of options is taken as a choice.
OptionsVariant_accepting_zero(m, key_code) ==
    IF IsChar(key_code)
    THEN IF ParseDigit(key_code) <= m.options
         THEN [modal |-> [Modal_close(m) EXCEPT !.selected_index = 0],
               sent |-> CallWith(m.on_confirm, <<>>, 0)]
         ELSE [modal |-> m, sent |-> <<>>]
    ELSE IF key_code = "Esc"
    THEN [modal |-> Modal_close(m), sent |-> <<>>]
    ELSE [modal |-> m, sent |-> <<>>]

OptionsVariant_handle_input(m, key_code) ==
    IF IsChar(key_code)
    THEN IF ParseDigit(key_code) > 0 /\ ParseDigit(key_code) <= m.options
         THEN [modal |-> [Modal_close(m) EXCEPT !.selected_index = ParseDigit(key_code) - 1],
               sent |-> CallWith(m.on_confirm, <<>>, ParseDigit(key_code) - 1)]
         ELSE [modal |-> m, sent |-> <<>>]
    ELSE IF key_code = "Esc"
    THEN [modal |-> Modal_close(m), sent |-> <<>>]
    ELSE [modal |-> m, sent |-> <<>>]

\* Modal::handle_input: the variant's handler.
Modal_handle_input(m, key_code) ==
    CASE m.variant = "Info" -> InfoVariant_handle_input(m, key_code)
      [] m.variant = "Question" -> QuestionVariant_handle_input(m, key_code)
      [] m.variant = "Confirmation" -> ConfirmationVariant_handle_input(m, key_code)
      [] m.variant = "Options" -> OptionsVariant_handle_input(m, key_code)

----------------------------------------------------------------------------
(* The file explorer (src/src/file_explorer.rs).                           *)

ExplorerCommands ==
    << <<"explorer", "select_previous_file">>, <<"explorer", "select_next_file">>,
       <<"explorer", "go_back">>, <<"explorer", "open_selected_file">>,
       <<"explorer", "delete_current_file">>, <<"explorer", "move_current_file">>,
       <<"explorer", "sort_entries">>, <<"explorer", "create_file">>,
       <<"explorer", "filter">> >>

FileExplorer_get_commands(ex) == IF ~ex.interactive THEN <<>> ELSE ExplorerCommands

\* The number of sort criteria, SORT_ENTRIES.len().
SortEntriesLen == 3

\* char::to_lowercase on the model's characters.
LowerChar(c) == IF c = "A" THEN "a" ELSE c
ToLower(str) == [i \in 1..Len(str) |-> LowerChar(str[i])]

\* FileExplorer::new in directory dir, which the caller has checked readable.
FileExplorer_new(d, name, interactive, dir) ==
    [current_dir |-> dir,
     selected_index |-> 0,
     entries |-> read_dir_entries(d, dir).entries,
     is_focused |-> FALSE,
     interactive |-> interactive,
     name_filter |-> <<>>,
     modal |-> Modal_close(InfoVariant_new("")),
     channel |-> <<>>,
     current_sort |-> 0,
     name |-> name]

FileExplorer_select_previous(ex) ==
    IF ex.entries # <<>> /\ ex.selected_index > 0
    THEN [ex EXCEPT !.selected_index = @ - 1] ELSE ex

FileExplorer_select_next(ex) ==
    IF ex.entries # <<>> /\ ex.selected_index < Len(ex.entries) - 1
    THEN [ex EXCEPT !.selected_index = @ + 1] ELSE ex

\* get_selected_file: entries.get(selected_index), NoPath for None.
FileExplorer_get_selected_file(ex) ==
    IF ex.selected_index < Len(ex.entries) THEN ex.entries[ex.selected_index + 1] ELSE NoPath

FileExplorer_open_info_modal(ex, message) == [ex EXCEPT !.modal = InfoVariant_new(message)]

\* A faulty prompt: the task is sent when the prompt opens, before any answer.
FileExplorer_prompt_for_delete_sending(ex) ==
    LET selected_file == FileExplorer_get_selected_file(ex)
    IN  IF selected_file # NoPath
        THEN [ex EXCEPT !.modal = Modal_new("Confirmation", "Delete file", <<>>, 0,
                                            Closure("DeleteFile", selected_file)),
                        !.channel = Append(@, Task("DeleteFile", selected_file, <<>>, 0))]
        ELSE FileExplorer_open_info_modal(ex, "Selected file is invalid")

FileExplorer_prompt_for_delete_current_file(ex) ==
    LET selected_file == FileExplorer_get_selected_file(ex)
    IN  IF selected_file # NoPath
        THEN [ex EXCEPT !.modal = Modal_new("Confirmation", "Delete file", <<>>, 0,
                                            Closure("DeleteFile", selected_file))]
        ELSE FileExplorer_open_info_modal(ex, "Selected file is invalid")

FileExplorer_prompt_for_move_file(ex) ==
    LET selected_file == FileExplorer_get_selected_file(ex)
    IN  IF selected_file # NoPath
        THEN [ex EXCEPT !.modal = Modal_new("Question", "Move file", selected_file, 0,
                                            Closure("MoveFile", selected_file))]
        ELSE FileExplorer_open_info_modal(ex, "Selected file is invalid")

FileExplorer_prompt_for_sorting_criterion(ex) ==
    [ex EXCEPT !.modal = Modal_new("Options", "Sort by", <<>>, SortEntriesLen,
                                   Closure("Sort", NoPath))]

FileExplorer_prompt_for_new_file(ex) ==
    [ex EXCEPT !.modal = Modal_new("Question", "Create file", <<>>, 0,
                                   Closure("CreateFile", NoPath))]

FileExplorer_prompt_for_new_filter(ex) ==
    [ex EXCEPT !.modal = Modal_new("Question", "Filter", <<>>, 0,
                                   Closure("Filter", NoPath))]

\* Editor::set_path for FileExplorer: nothing changes when the read fails.
FileExplorer_set_path(ex, d, new_dir) ==
    With(read_dir_entries(d, new_dir),
         LAMBDA read :
            IF read.ok
            THEN [ok |-> TRUE,
                  ex |-> [ex EXCEPT !.entries = read.entries,
                                    !.current_dir = new_dir,
                                    !.selected_index = 0,
                                    !.name_filter = <<>>,
                                    !.current_sort = 0]]
            ELSE [ok |-> FALSE, ex |-> ex])

\* A faulty go_back: the explorer stays in its directory.
FileExplorer_go_back_staying(ex, d) == ex

FileExplorer_go_back(ex, d) ==
    IF Parent(ex.current_dir) # NoPath
    THEN FileExplorer_set_path(ex, d, Parent(ex.current_dir)).ex
    ELSE ex

\* A faulty open_selected_file: the key is consumed without the descent.
FileExplorer_open_selected_file_staying(ex, d) ==
    LET selected_file == FileExplorer_get_selected_file(ex)
    IN  [ex |-> ex, ret |-> selected_file # NoPath /\ IsDir(d, selected_file)]

\* open_selected_file: the explorer and whether the key was consumed.
FileExplorer_open_selected_file(ex, d) ==
    LET selected_file == FileExplorer_get_selected_file(ex)
    IN  IF selected_file # NoPath /\ IsDir(d, selected_file)
        THEN [ex |-> FileExplorer_set_path(ex, d, selected_file).ex, ret |-> TRUE]
        ELSE [ex |-> ex, ret |-> FALSE]

\* sort_by_name; the other criteria read file metadata.
SortEntries(d, current_sort, entries) ==
    SortPaths({entries[i] : i \in 1..Len(entries)})

\* A faulty refresh: the listing is not read again.
FileExplorer_refresh_stale(ex, d) == [ex EXCEPT !.selected_index = 0]

\* refresh: re-read, filter by name, sort, select the first entry.
\* A faulty refresh: the entries are read again and the selection stays
\* where it was.
FileExplorer_refresh_keeping_index(ex, d) ==
    With(read_dir_entries(d, ex.current_dir),
         LAMBDA read :
            IF read.ok
            THEN [ex EXCEPT
                    !.entries =
                        SortEntries(d, ex.current_sort,
                                    SelectSeq(read.entries,
                                              LAMBDA entry : Contains(ToLower(FileName(entry)),
                                                                      ToLower(ex.name_filter))))]
            ELSE ex)

FileExplorer_refresh(ex, d) ==
    With(read_dir_entries(d, ex.current_dir),
         LAMBDA read :
            IF read.ok
            THEN [ex EXCEPT
                    !.entries =
                        SortEntries(d, ex.current_sort,
                                    SelectSeq(read.entries,
                                              LAMBDA entry : Contains(ToLower(FileName(entry)),
                                                                      ToLower(ex.name_filter)))),
                    !.selected_index = 0]
            ELSE ex)

\* dispatch_on_task: the explorer, the filesystem and the mutations attempted.
FileExplorer_dispatch_on_task(ex, d, task, io) ==
    CASE task.op = "CreateFile" ->
            With(JoinPath(ex.current_dir, task.text),
                 LAMBDA new_file :
                    IF Exists(d, new_file)
                    THEN [ex |-> FileExplorer_refresh(
                                    FileExplorer_open_info_modal(ex, "File already exists"), d),
                          disk |-> d, ops |-> <<>>]
                    ELSE With(fs_create(d, new_file, io),
                              LAMBDA made :
                                 [ex |-> FileExplorer_refresh(
                                            IF made.ok THEN ex
                                            ELSE FileExplorer_open_info_modal(
                                                     ex, "Could not create the file"),
                                            made.disk),
                                  disk |-> made.disk,
                                  ops |-> <<FsOp("create", new_file, NoPath, made.ok)>>]))
      [] task.op = "DeleteFile" ->
            With(fs_remove(d, task.path, io),
                 LAMBDA removal :
                    [ex |-> IF removal.ok THEN FileExplorer_refresh(ex, removal.disk)
                            ELSE FileExplorer_open_info_modal(ex, "Could not delete"),
                     disk |-> removal.disk,
                     ops |-> <<FsOp("remove", task.path, NoPath, removal.ok)>>])
      [] task.op = "MoveFile" ->
            With(fs_rename(d, task.path, task.text, io),
                 LAMBDA renamed :
                    [ex |-> IF renamed.ok THEN FileExplorer_refresh(ex, renamed.disk)
                            ELSE FileExplorer_open_info_modal(ex, "Could not move file"),
                     disk |-> renamed.disk,
                     ops |-> <<FsOp("rename", task.path, task.text, renamed.ok)>>])
      [] task.op = "Sort" ->
            [ex |-> FileExplorer_refresh([ex EXCEPT !.current_sort = task.index], d),
             disk |-> d, ops |-> <<>>]
      [] task.op = "Filter" ->
            [ex |-> FileExplorer_refresh([ex EXCEPT !.name_filter = task.text], d),
             disk |-> d, ops |-> <<>>]

\* The handler of an explorer command: the explorer and what it returns.
FileExplorer_run(ex, d, command_id) ==
    CASE command_id[2] = "select_previous_file" -> [ex |-> FileExplorer_select_previous(ex), ret |-> TRUE]
      [] command_id[2] = "select_next_file" -> [ex |-> FileExplorer_select_next(ex), ret |-> TRUE]
      [] command_id[2] = "go_back" -> [ex |-> FileExplorer_go_back(ex, d), ret |-> TRUE]
      [] command_id[2] = "open_selected_file" -> FileExplorer_open_selected_file(ex, d)
      [] command_id[2] = "delete_current_file" ->
            [ex |-> FileExplorer_prompt_for_delete_current_file(ex), ret |-> TRUE]
      [] command_id[2] = "move_current_file" ->
            [ex |-> FileExplorer_prompt_for_move_file(ex), ret |-> TRUE]
      [] command_id[2] = "sort_entries" ->
            [ex |-> FileExplorer_prompt_for_sorting_criterion(ex), ret |-> TRUE]
      [] command_id[2] = "create_file" ->
            [ex |-> FileExplorer_prompt_for_new_file(ex), ret |-> TRUE]
      [] command_id[2] = "filter" ->
            [ex |-> FileExplorer_prompt_for_new_filter(ex), ret |-> TRUE]

\* CommandHandler::handle for the explorer; calls lists the command run.
FileExplorer_handle_command(ex, d, key_code) ==
    With(Handle(ex.name, FileExplorer_get_commands(ex), key_code),
         LAMBDA command_id :
            IF command_id = NoCommand THEN [ex |-> ex, ret |-> FALSE, calls |-> <<>>]
            ELSE FileExplorer_run(ex, d, command_id) @@ [calls |-> <<command_id>>])

\* A faulty receive: the task stays on the channel after it has been run.
FileExplorer_try_recv_requeueing(ex, queued, d, io) ==
    IF queued # <<>>
    THEN With(FileExplorer_dispatch_on_task([ex EXCEPT !.channel = <<>>], d, Head(queued), io),
              LAMBDA done :
                 [ex |-> [done.ex EXCEPT !.channel = queued], disk |-> done.disk, ret |-> TRUE,
                  calls |-> <<>>, ran |-> <<Head(queued)>>, ops |-> done.ops])
    ELSE [ex |-> [ex EXCEPT !.channel = queued], disk |-> d, ret |-> TRUE,
          calls |-> <<>>, ran |-> <<>>, ops |-> <<>>]

\* handle_input after the modal has handled the key: one task, if any is
\* queued, is received and dispatched (lines 356-359).
FileExplorer_try_recv(ex, queued, d, io) ==
    IF queued # <<>>
    THEN With(FileExplorer_dispatch_on_task([ex EXCEPT !.channel = Tail(queued)], d,
                                            Head(queued), io),
              LAMBDA done :
                 [ex |-> done.ex, disk |-> done.disk, ret |-> TRUE, calls |-> <<>>,
                  ran |-> <<Head(queued)>>, ops |-> done.ops])
    ELSE [ex |-> [ex EXCEPT !.channel = queued], disk |-> d, ret |-> TRUE,
          calls |-> <<>>, ran |-> <<>>, ops |-> <<>>]

\* A faulty handle_input: the key is run as a command whether or not the
\* modal is open.
FileExplorer_handle_input_past_modal(ex, d, key_code, io) ==
    With(FileExplorer_handle_command(ex, d, key_code),
         LAMBDA handled :
            [ex |-> handled.ex, disk |-> d, ret |-> handled.ret, calls |-> handled.calls,
             ran |-> <<>>, ops |-> <<>>])

\* InputHandler::handle_input for the explorer: with the modal open the key
\* goes to the modal and one task is received and run; otherwise a command.
\* calls lists the commands run, ran the tasks run, ops the filesystem
\* mutations attempted.
FileExplorer_handle_input(ex, d, key_code, io) ==
    IF ex.modal.is_open
    THEN With(Modal_handle_input(ex.modal, key_code),
              LAMBDA answered :
                 FileExplorer_try_recv([ex EXCEPT !.modal = answered.modal],
                                       ex.channel \o answered.sent, d, io))
    ELSE With(FileExplorer_handle_command(ex, d, key_code),
              LAMBDA handled :
                 [ex |-> handled.ex, disk |-> d, ret |-> handled.ret, calls |-> handled.calls,
                  ran |-> <<>>, ops |-> <<>>])

FileExplorer_focus(ex) == IF ex.interactive THEN [ex EXCEPT !.is_focused = TRUE] ELSE ex
FileExplorer_unfocus(ex) == [ex EXCEPT !.is_focused = FALSE]
FileExplorer_is_focused(ex) == ex.is_focused /\ ex.interactive

----------------------------------------------------------------------------
(* The text editor as an input and command handler                         *)
(* (src/src/text_editor.rs:366-437).                                       *)

TextEditorCommands ==
    << <<"text_editor", "next_char">>, <<"text_editor", "prev_char">>,
       <<"text_editor", "next_line">>, <<"text_editor", "prev_line">>,
       <<"text_editor", "save">>, <<"text_editor", "insert_mode">>,
       <<"text_editor", "go_back">> >>

\* is_insertable_key_code: the printable ASCII characters, Backspace, Delete, Enter.
is_insertable_key_code(key_code) ==
    (IsChar(key_code) /\ key_code # NL) \/ key_code \in {"Backspace", "Delete", "Enter"}

\* as_command!: the wrapped method runs and the key counts as consumed.
as_command(te) == [te |-> te, ret |-> TRUE]

\* The result of a command that touches no file.
InMemory(r, d) == r @@ [disk |-> d, ops |-> <<>>]

\* The handler of a text editor command: editor, return value, filesystem
\* and the writes attempted.
TextEditor_run(te, d, command_id, io) ==
    CASE command_id[2] = "next_char" -> InMemory(as_command(TextEditor_next_char(te)), d)
      [] command_id[2] = "prev_char" -> InMemory(as_command(TextEditor_prev_char(te)), d)
      [] command_id[2] = "next_line" -> InMemory(as_command(TextEditor_next_line(te)), d)
      [] command_id[2] = "prev_line" -> InMemory(as_command(TextEditor_prev_line(te)), d)
      [] command_id[2] = "save" ->
            With(TextEditor_save(te, d, io),
                 LAMBDA saved : as_command(saved.te) @@ [disk |-> saved.disk, ops |-> saved.ops])
      [] command_id[2] = "insert_mode" -> InMemory(as_command(TextEditor_edit_mode(te)), d)
      [] command_id[2] = "go_back" -> InMemory(TextEditor_go_back(te), d)

TextEditor_handle_command(te, d, key_code, io) ==
    With(Handle("text_editor", TextEditorCommands, key_code),
         LAMBDA command_id :
            IF command_id = NoCommand
            THEN [te |-> te, ret |-> FALSE, disk |-> d, ops |-> <<>>]
            ELSE TextEditor_run(te, d, command_id, io))

\* InputHandler::handle_input for the text editor.
\* A faulty input handler: insertable keys edit the text in either mode.
TextEditor_handle_input_any_mode(te, d, key_code, io) ==
    IF te.modal_open
    THEN [te |-> te, ret |-> FALSE, disk |-> d, ops |-> <<>>, panic |-> FALSE]
    ELSE IF is_insertable_key_code(key_code)
    THEN IF InsertPanics(te)
         THEN [te |-> te, ret |-> FALSE, disk |-> d, ops |-> <<>>, panic |-> TRUE]
         ELSE [te |-> TextEditor_insert(te, key_code), ret |-> TRUE, disk |-> d, ops |-> <<>>,
               panic |-> FALSE]
    ELSE TextEditor_handle_command(te, d, key_code, io) @@ [panic |-> FALSE]

TextEditor_handle_input(te, d, key_code, io) ==
    IF te.modal_open
    THEN [te |-> te, ret |-> FALSE, disk |-> d, ops |-> <<>>, panic |-> FALSE]
    ELSE IF te.mode = "Edit" /\ is_insertable_key_code(key_code)
    THEN IF InsertPanics(te)
         THEN [te |-> te, ret |-> FALSE, disk |-> d, ops |-> <<>>, panic |-> TRUE]
         ELSE [te |-> TextEditor_insert(te, key_code), ret |-> TRUE, disk |-> d, ops |-> <<>>,
               panic |-> FALSE]
    ELSE TextEditor_handle_command(te, d, key_code, io) @@ [panic |-> FALSE]

----------------------------------------------------------------------------
(* The editors of the App (src/src/editor.rs): "preview" is editors[0],    *)
(* "text" is editors[1], "null" is editors[2].                             *)

NullEdtior_new == [message |-> NoMessage]

EditorEnum_set_path(eds, which, d, path) ==
    CASE which = "text" ->
            With(TextEditor_set_path(eds.text, d, path),
                 LAMBDA r : [ok |-> r.ok, err |-> r.err, editors |-> [eds EXCEPT !.text = r.te]])
      [] which = "preview" ->
            With(FileExplorer_set_path(eds.preview, d, path),
                 LAMBDA r :
                    [ok |-> r.ok,
                     err |-> IF r.ok THEN NoMessage ELSE "Could not read directory entries",
                     editors |-> [eds EXCEPT !.preview = r.ex]])
      [] which = "null" -> [ok |-> TRUE, err |-> NoMessage, editors |-> eds]

EditorEnum_is_focused(eds, which) ==
    CASE which = "text" -> eds.text.is_focused
      [] which = "preview" -> FileExplorer_is_focused(eds.preview)
      [] which = "null" -> FALSE

EditorEnum_focus(eds, which) ==
    CASE which = "text" -> [eds EXCEPT !.text.is_focused = TRUE]
      [] which = "preview" -> [eds EXCEPT !.preview = FileExplorer_focus(@)]
      [] which = "null" -> eds

EditorEnum_unfocus(eds, which) ==
    CASE which = "text" -> [eds EXCEPT !.text.is_focused = FALSE]
      [] which = "preview" -> [eds EXCEPT !.preview = FileExplorer_unfocus(@)]
      [] which = "null" -> eds

EditorEnum_modal_open(eds, which) ==
    IF which = "text" THEN eds.text.modal_open ELSE FALSE

EditorEnum_get_commands_data(eds, which) ==
    CASE which = "text" -> TextEditorCommands
      [] which = "preview" -> FileExplorer_get_commands(eds.preview)
      [] which = "null" -> <<>>

\* EditorEnum::handle_input: editors, filesystem, return value, the filesystem
\* writes and mutations attempted, panic.
EditorEnum_handle_input(eds, which, d, key_code, io) ==
    CASE which = "text" ->
            With(TextEditor_handle_input(eds.text, d, key_code, io),
                 LAMBDA r :
                    [editors |-> [eds EXCEPT !.text = r.te], disk |-> r.disk, ret |-> r.ret,
                     ops |-> r.ops, panic |-> r.panic])
      [] which = "preview" ->
            With(FileExplorer_handle_input(eds.preview, d, key_code, io),
                 LAMBDA r :
                    [editors |-> [eds EXCEPT !.preview = r.ex], disk |-> r.disk, ret |-> r.ret,
                     ops |-> r.ops, panic |-> FALSE])
      [] which = "null" ->
            [editors |-> eds, disk |-> d, ret |-> FALSE, ops |-> <<>>, panic |-> FALSE]

----------------------------------------------------------------------------
(* The App (src/src/app.rs).  An app value is the record of its fields:    *)
(* [explorer, editors, info_message, legend, should_stop].                 *)

AppCommands == << <<"app", "quit">>, <<"app", "go_back">>, <<"app", "open_selected_file">> >>

\* provide_editor / provide_editor_mut: which of the editors is the active one.
App_provide_editor(a, d) ==
    IF a.info_message # NoMessage THEN "null"
    ELSE IF FileExplorer_get_selected_file(a.explorer) # NoPath
    THEN (IF IsDir(d, FileExplorer_get_selected_file(a.explorer)) THEN "preview" ELSE "text")
    ELSE "null"

App_on_selected_file_change(a, d) ==
    IF FileExplorer_get_selected_file(a.explorer) # NoPath
    THEN With(EditorEnum_set_path(a.editors, App_provide_editor(a, d), d,
                                  FileExplorer_get_selected_file(a.explorer)),
              LAMBDA set :
                 IF ~set.ok
                 THEN With([a EXCEPT !.editors = set.editors, !.info_message = set.err],
                           LAMBDA failed :
                              IF App_provide_editor(failed, d) = "null"
                              THEN [failed EXCEPT !.editors.null.message = set.err]
                              ELSE failed)
                 ELSE [a EXCEPT !.editors = set.editors, !.info_message = NoMessage])
    ELSE a

\* The commands data handed to Legend::update_command_bindings.
App_on_window_change(a, d) ==
    [a EXCEPT !.legend = IF EditorEnum_is_focused(a.editors, App_provide_editor(a, d))
                         THEN EditorEnum_get_commands_data(a.editors, App_provide_editor(a, d))
                         ELSE FileExplorer_get_commands(a.explorer)]

App_quit(a) == [a EXCEPT !.should_stop = TRUE]

App_open_selected_file(a, d) ==
    IF /\ FileExplorer_get_selected_file(a.explorer) # NoPath
       /\ ~IsDir(d, FileExplorer_get_selected_file(a.explorer))
       /\ a.info_message = NoMessage
    THEN With([a EXCEPT !.explorer = FileExplorer_unfocus(@)],
              LAMBDA unfocused :
                 [unfocused EXCEPT !.editors =
                                       EditorEnum_focus(@, App_provide_editor(unfocused, d))])
    ELSE a

\* A faulty go_back: the editor keeps its focus.
App_go_back_keeping_editor(a, d) == [a EXCEPT !.explorer = FileExplorer_focus(@)]

App_go_back(a, d) ==
    [a EXCEPT !.editors = EditorEnum_unfocus(@, App_provide_editor(a, d)),
              !.explorer = FileExplorer_focus(@)]

\* The handler of an App command; each returns true.
App_run(a, d, command_id) ==
    CASE command_id[2] = "quit" -> App_quit(a)
      [] command_id[2] = "go_back" -> App_go_back(a, d)
      [] command_id[2] = "open_selected_file" -> App_open_selected_file(a, d)

\* A faulty fallback: the App's commands are tried whether or not the key
\* has been captured.
App_fallback_always(a, d, captured, calls, key_code) ==
    With(Handle("app", AppCommands, key_code),
         LAMBDA command_id :
            IF command_id # NoCommand
            THEN [app |-> App_on_window_change(App_run(a, d, command_id), d),
                  captured |-> TRUE, calls |-> Append(calls, command_id)]
            ELSE [app |-> a, captured |-> captured, calls |-> calls])

\* The last block of App::handle_input: the App's own commands, tried when
\* nothing has captured the key.  calls lists the command handlers run.
App_fallback(a, d, captured, calls, key_code) ==
    With(Handle("app", AppCommands, key_code),
         LAMBDA command_id :
            IF ~captured /\ command_id # NoCommand
            THEN [app |-> App_on_window_change(App_run(a, d, command_id), d),
                  captured |-> TRUE, calls |-> Append(calls, command_id)]
            ELSE [app |-> a, captured |-> captured, calls |-> calls])

\* The end of App::handle_input: the App's commands are tried, and the
\* result is put together.
App_captured(app, dsk, captured, calls, ran, ops, key_code) ==
    With(App_fallback(app, dsk, captured, calls, key_code),
         LAMBDA f :
            [app |-> f.app, disk |-> dsk, panic |-> FALSE, captured |-> f.captured,
             event |-> [calls |-> f.calls, ran |-> ran, ops |-> ops]])

\* InputHandler::handle_input for App.  The result holds the app, the
\* filesystem, the value returned (captured) and the record of the event:
\* the App and explorer command handlers run (calls), the explorer tasks run
\* (ran) and the filesystem writes and mutations attempted (ops).
App_handle_input(a, d, key_code, io) ==
    IF EditorEnum_is_focused(a.editors, App_provide_editor(a, d))
    THEN IF EditorEnum_modal_open(a.editors, App_provide_editor(a, d))
         THEN App_captured(App_go_back(a, d), d, TRUE, << <<"app", "go_back">> >>, <<>>, <<>>,
                           key_code)
         ELSE With(EditorEnum_handle_input(a.editors, App_provide_editor(a, d), d, key_code, io),
                   LAMBDA r :
                      IF r.panic
                      THEN [app |-> a, disk |-> d, panic |-> TRUE, captured |-> FALSE,
                            event |-> [calls |-> <<>>, ran |-> <<>>, ops |-> <<>>]]
                      ELSE App_captured([a EXCEPT !.editors = r.editors], r.disk, r.ret,
                                        <<>>, <<>>, r.ops, key_code))
    ELSE IF FileExplorer_is_focused(a.explorer)
    THEN With(FileExplorer_handle_input(a.explorer, d, key_code, io),
              LAMBDA r :
                 App_captured(IF r.ret
                              THEN App_on_selected_file_change([a EXCEPT !.explorer = r.ex], r.disk)
                              ELSE [a EXCEPT !.explorer = r.ex],
                              r.disk, r.ret, r.calls, r.ran, r.ops, key_code))
    ELSE App_captured(a, d, FALSE, <<>>, <<>>, <<>>, key_code)

\* App::new in a process started in ProcessDir.
App_new(d) ==
    App_on_window_change(
        App_on_selected_file_change(
            [explorer |-> FileExplorer_focus(FileExplorer_new(d, "explorer", TRUE, ProcessDir)),
             editors |-> [preview |-> FileExplorer_new(d, "preview_explorer", FALSE, ProcessDir),
                          text |-> TextEditor_new,
                          null |-> NullEdtior_new],
             info_message |-> NoMessage,
             legend |-> <<>>,
             should_stop |-> FALSE],
            d),
        d)

----------------------------------------------------------------------------
(* The specification: the App after construction, then one key event per   *)
(* step (src/src/main.rs:45-61).                                           *)

\* The filesystem the process starts in: a text file, a file that is not
\* valid UTF-8 and a directory.
InitialDisk ==
    (Root :> DirNode) @@ (<<"/", "a">> :> FileNode(<<"a">>)) @@ (<<"/", "b">> :> BinaryNode)
    @@ (<<"/", "s">> :> DirNode)

\* The keys the user presses while browsing, and while editing.
Keys == {"Enter", "Esc", "Down", "Up", "y", "n", "q", "d", "m", "/"}
EditKeys == {"Enter", "Esc", "Backspace", "Delete", "y", "n", "q", "i", "s", "k", "h", "l"}

TheApp == [explorer |-> explorer, editors |-> editors, info_message |-> info_message,
           legend |-> legend, should_stop |-> should_stop]

Init ==
    /\ disk = InitialDisk
    /\ \E app \in {App_new(disk)} :
         /\ explorer = app.explorer
         /\ editors = app.editors
         /\ info_message = app.info_message
         /\ legend = app.legend
         /\ should_stop = app.should_stop
    /\ panicked = FALSE
    /\ event = [calls |-> <<>>, ran |-> <<>>, ops |-> <<>>]

ActiveEditor == App_provide_editor(TheApp, disk)
EditorFocused == EditorEnum_is_focused(editors, ActiveEditor)
EditorModalOpen == EditorFocused /\ EditorEnum_modal_open(editors, ActiveEditor)
ExplorerFocused == ~EditorFocused /\ FileExplorer_is_focused(explorer)

\* The characters the user types into the answer of a Question modal and
\* into the buffer in Edit mode.
AnswerChars == {"y"}
TextChars == {"q"}

RECURSIVE TotalChars(_)
TotalChars(ls) == IF ls = <<>> THEN 0 ELSE Len(Head(ls)) + TotalChars(Tail(ls))

\* The key does not grow a text of the model beyond its bound.
WithinBounds(key_code) ==
    /\ (ExplorerFocused /\ explorer.modal.is_open /\ explorer.modal.variant = "Question"
            /\ IsChar(key_code))
        => key_code \in AnswerChars /\ Len(explorer.modal.answer) < MaxAnswer
    /\ (EditorFocused /\ ~EditorModalOpen /\ editors.text.mode = "Edit" /\ IsChar(key_code)
            /\ editors.text.lines # <<>>)
        => key_code \in TextChars /\ TotalChars(editors.text.lines) < MaxText
    /\ (EditorFocused /\ ~EditorModalOpen /\ editors.text.mode = "Edit" /\ key_code = "Enter")
        => Len(editors.text.lines) < MaxLines

\* main's loop: the key is handled whole; the loop ends on should_stop.
KeyEvent(key_code, io) ==
    /\ ~should_stop
    /\ ~panicked
    /\ WithinBounds(key_code)
    /\ \E r \in {App_handle_input(TheApp, disk, key_code, io)} :
         /\ explorer' = r.app.explorer
         /\ editors' = r.app.editors
         /\ info_message' = r.app.info_message
         /\ legend' = r.app.legend
         /\ should_stop' = r.app.should_stop
         /\ disk' = r.disk
         /\ panicked' = r.panic
         /\ event' = r.event

\* A key while the focused editor's modal is open.
EditorModalKey(K) == EditorModalOpen /\ \E k \in K : KeyEvent(k, TRUE)

\* A key while the editor is focused and has no modal open.
EditorKey(K) ==
    EditorFocused /\ ~EditorModalOpen /\ \E k \in K, io \in BOOLEAN : KeyEvent(k, io)

\* A key while the explorer is focused and its modal is open.
ExplorerModalKey(K) ==
    ExplorerFocused /\ explorer.modal.is_open /\ \E k \in K, io \in BOOLEAN : KeyEvent(k, io)

\* A key while the explorer is focused and has no modal open.
ExplorerKey(K) == ExplorerFocused /\ ~explorer.modal.is_open /\ \E k \in K : KeyEvent(k, TRUE)

\* Browsing: the explorer, its prompts and the focus; the buffer is not edited.
Next == EditorKey(Keys) \/ ExplorerModalKey(Keys) \/ ExplorerKey(Keys)

Spec == Init /\ [][Next]_vars

\* Editing: the text editor, its modal and the focus; no explorer prompt is opened.
NextEdit == EditorModalKey(EditKeys) \/ EditorKey(EditKeys) \/ ExplorerKey(EditKeys)

SpecEdit == Init /\ [][NextEdit]_vars

\* Editing where the unsaved-changes modal is never answered with 'n'.
NextUnrefused ==
    EditorModalKey(EditKeys \ {"n"}) \/ EditorKey(EditKeys) \/ ExplorerKey(EditKeys)

SpecUnrefused == Init /\ [][NextUnrefused]_vars

\* Browsing and saving without editing: the selection moves, files are
\* opened, saved as they were loaded, and left.
NextBrowseSave ==
    ExplorerKey({"Down", "Up", "Enter", "Esc"}) \/ EditorKey({"s", "l", "Esc"})

SpecBrowseSave == Init /\ [][NextBrowseSave]_vars

\* The explorer commands that get_bindings gives no key: their handlers are
\* run as CommandHandler::handle runs a handler once a binding matches.
UnboundCommands == {<<"explorer", "create_file">>}

\* The keys pressed while working with the prompts.
PromptKeys == {"Enter", "Esc", "y", "n", "d", "m"}

\* App::handle_input for a key bound to one of the explorer commands C.
ExplorerCommandsOf(C) ==
    /\ ~should_stop
    /\ ~panicked
    /\ ExplorerFocused
    /\ ~explorer.modal.is_open
    /\ \E command_id \in C :
         \E r \in {FileExplorer_run(explorer, disk, command_id)} :
            \E app \in {IF r.ret
                         THEN App_on_selected_file_change([TheApp EXCEPT !.explorer = r.ex], disk)
                         ELSE [TheApp EXCEPT !.explorer = r.ex]} :
               /\ explorer' = app.explorer
               /\ editors' = app.editors
               /\ info_message' = app.info_message
               /\ event' = [calls |-> <<command_id>>, ran |-> <<>>, ops |-> <<>>]
               /\ UNCHANGED <<legend, should_stop, disk, panicked>>

ExplorerCommand == ExplorerCommandsOf(UnboundCommands)

\* The prompts: every prompt of the explorer is opened, answered and run.
NextPrompt ==
    ExplorerCommand \/ ExplorerModalKey(PromptKeys) \/ ExplorerKey(PromptKeys)
    \/ EditorKey(PromptKeys)

SpecPrompt == Init /\ [][NextPrompt]_vars

\* The keys pressed to open a Question prompt and move the selection, and the
\* keys pressed into the prompt: a character, Backspace and Esc.
BrowseKeys == {"m", "/", "Down"}
QuestionKeys == {"y", "Backspace", "Esc"}

\* The Question prompts (move, create file, filter): opened, edited, dismissed.
NextQuestion == ExplorerCommand \/ ExplorerModalKey(QuestionKeys) \/ ExplorerKey(BrowseKeys)

SpecQuestion == Init /\ [][NextQuestion]_vars

\* The Question prompts answered: the answer is edited and confirmed.
NextAnswer ==
    \/ ExplorerCommand
    \/ ExplorerModalKey(QuestionKeys \cup {"Enter"})
    \/ ExplorerKey({"m", "/"})

SpecAnswer == Init /\ [][NextAnswer]_vars

\* The keys pressed into the sort prompt: the digits in and out of range, a
\* letter, Enter and Esc.
OptionKeys == {"0", "1", "2", "3", "4", "x", "Enter", "Esc"}

\* The keys pressed outside the prompt: the selection moves, a directory is
\* entered and left.
OptionBrowseKeys == {"Down", "Enter", "Esc"}

\* The Options prompt (sort criterion): opened, answered, dismissed.
NextOptions ==
    \/ ExplorerCommandsOf({<<"explorer", "sort_entries">>})
    \/ ExplorerModalKey(OptionKeys)
    \/ ExplorerKey(OptionBrowseKeys)

SpecOptions == Init /\ [][NextOptions]_vars

----------------------------------------------------------------------------
(* Command dispatch on its own: CommandHandler::handle called with a key   *)
(* on each kind of owner (src/src/command.rs:15-39): a FileExplorer under  *)
(* either name, interactive or not, the TextEditor and the App.            *)

\* The keys handed to handle: keys bound in one namespace, in several, in none.
DispatchKeys == {"q", "Enter", "Esc", "k", "d", "l", "Right"}

\* The names and the interactivity a FileExplorer is constructed with.
ExplorerKinds == {<<"explorer", TRUE>>, <<"explorer", FALSE>>, <<"preview_explorer", FALSE>>}

\* What a call of handle did: the owner's name, the key, the command invoked
\* (calls), the value returned and the filesystem operations attempted.
Dispatched(owner, key_code, calls, ret, ops) ==
    [calls |-> calls, ran |-> <<>>, ops |-> ops, owner |-> owner, key |-> key_code, ret |-> ret]

DispatchExplorer ==
    /\ ~should_stop
    /\ \E key_code \in DispatchKeys, kind \in ExplorerKinds :
         \E r \in {FileExplorer_handle_command(
                       [explorer EXCEPT !.name = kind[1], !.interactive = kind[2]],
                       disk, key_code)} :
            /\ explorer' = r.ex
            /\ event' = Dispatched(kind[1], key_code, r.calls, r.ret, <<>>)
            /\ UNCHANGED <<editors, info_message, legend, should_stop, disk, panicked>>

DispatchTextEditor ==
    /\ ~should_stop
    /\ \E key_code \in DispatchKeys, io \in BOOLEAN :
         \E r \in {TextEditor_handle_command(editors.text, disk, key_code, io)},
            command_id \in {Handle("text_editor", TextEditorCommands, key_code)} :
            /\ editors' = [editors EXCEPT !.text = r.te]
            /\ disk' = r.disk
            /\ event' = Dispatched("text_editor", key_code,
                                   IF command_id = NoCommand THEN <<>> ELSE <<command_id>>,
                                   r.ret, r.ops)
            /\ UNCHANGED <<explorer, info_message, legend, should_stop, panicked>>

DispatchApp ==
    /\ ~should_stop
    /\ \E key_code \in DispatchKeys :
         \E r \in {App_fallback(TheApp, disk, FALSE, <<>>, key_code)} :
            /\ explorer' = r.app.explorer
            /\ editors' = r.app.editors
            /\ info_message' = r.app.info_message
            /\ legend' = r.app.legend
            /\ should_stop' = r.app.should_stop
            /\ event' = Dispatched("app", key_code, r.calls, r.captured, <<>>)
            /\ UNCHANGED <<disk, panicked>>

NextDispatch == DispatchExplorer \/ DispatchTextEditor \/ DispatchApp

SpecDispatch == Init /\ [][NextDispatch]_vars

----------------------------------------------------------------------------
(* The text editor on its own: a buffer loaded from a file, then any of    *)
(* the editor's operations in any order (src/src/text_editor.rs:65-195,    *)
(* 439-451), whatever the mode and the key bindings.                       *)

\* The contents of the file the buffer is first loaded from.
EdContents == {<<>>, <<"q">>, <<"q", NL>>, <<NL, "q">>, <<"a", "q">>, <<"a", NL, NL, "q">>}

\* The keys handed to insert.
EdKeys == {"q", "Backspace", "Delete", "Enter"}

\* The path handed to set_path: the text file.
EdPaths == {<<"/", "a">>}

NoEvent == [calls |-> <<>>, ran |-> <<>>, ops |-> <<>>]

InitEd ==
    /\ \E t \in EdContents : disk = PutNode(InitialDisk, <<"/", "a">>, FileNode(t))
    /\ \E app \in {App_new(disk)} :
         /\ explorer = app.explorer
         /\ editors = app.editors
         /\ info_message = app.info_message
         /\ legend = app.legend
         /\ should_stop = app.should_stop
    /\ panicked = FALSE
    /\ event = NoEvent

\* A method of the text editor that touches the buffer only; calls names
\* the method called, or the key handed to insert.
EdCall(calls, te) ==
    /\ ~panicked
    /\ editors' = [editors EXCEPT !.text = te]
    /\ event' = [NoEvent EXCEPT !.calls = calls]
    /\ UNCHANGED <<explorer, info_message, legend, should_stop, disk, panicked>>

EdNextChar == EdCall(<<"next_char">>, TextEditor_next_char(editors.text))
EdPrevChar == EdCall(<<"prev_char">>, TextEditor_prev_char(editors.text))
EdNextLine == EdCall(<<"next_line">>, TextEditor_next_line(editors.text))
EdPrevLine == EdCall(<<"prev_line">>, TextEditor_prev_line(editors.text))

EdInsert ==
    \E k \in EdKeys :
        /\ ~InsertPanics(editors.text)
        /\ IsChar(k) => TotalChars(editors.text.lines) < MaxText
        /\ k = "Enter" => Len(editors.text.lines) < MaxLines
        /\ EdCall(<<k>>, TextEditor_insert(editors.text, k))

EdSetPath ==
    \E p \in EdPaths :
        \E set \in {TextEditor_set_path(editors.text, disk, p)} :
            EdCall(IF set.ok THEN <<"set_path">> ELSE <<>>, set.te)

EdSave ==
    \E io \in BOOLEAN :
        \E saved \in {TextEditor_save(editors.text, disk, io)} :
            /\ ~panicked
            /\ editors' = [editors EXCEPT !.text = saved.te]
            /\ disk' = saved.disk
            /\ event' = [NoEvent EXCEPT !.calls = <<"save">>, !.ops = saved.ops]
            /\ UNCHANGED <<explorer, info_message, legend, should_stop, panicked>>

NextEd ==
    EdNextChar \/ EdPrevChar \/ EdNextLine \/ EdPrevLine \/ EdInsert \/ EdSetPath \/ EdSave

SpecEd == InitEd /\ [][NextEd]_vars

----------------------------------------------------------------------------
(* Properties.  A step is identified by what it did (event') and, where the *)
(* key matters, by the key event that yields it.                            *)

\* The step is the handling of key k.
KeyStep(k) == \E io \in BOOLEAN : KeyEvent(k, io)

ExplorerModalOpen == ExplorerFocused /\ explorer.modal.is_open

\* The task the open modal sends when it is confirmed.
ModalTask == Task(explorer.modal.on_confirm.op, explorer.modal.on_confirm.path,
                  explorer.modal.answer, 0)

\* The step handles the key that confirms the explorer's open Confirmation
\* or Question modal, or the key that refuses it.
ConfirmStep ==
    /\ ExplorerModalOpen
    /\ \/ explorer.modal.variant = "Confirmation" /\ KeyStep("y")
       \/ explorer.modal.variant = "Question" /\ KeyStep("Enter")
RefuseStep ==
    /\ ExplorerModalOpen
    /\ \/ explorer.modal.variant = "Confirmation" /\ KeyStep("n")
       \/ explorer.modal.variant = "Question" /\ KeyStep("Esc")

\* The creations, deletions and renames among the filesystem operations ops.
Mutations(ops) == {i \in 1..Len(ops) : ops[i].op \in {"create", "remove", "rename"}}
FailedWrite(ops) == \E i \in 1..Len(ops) : ops[i].op = "write" /\ ~ops[i].ok
DoneWrite(ops) == \E i \in 1..Len(ops) : ops[i].op = "write" /\ ops[i].ok

\* The step ran the command owner.action first.
Ran(owner, action) == event'.calls # <<>> /\ event'.calls[1] = <<owner, action>>

AppCalls(calls) == {i \in 1..Len(calls) : calls[i][1] = "app"}

SelectedFile == FileExplorer_get_selected_file(explorer)

\* C1: whenever the buffer is non-empty, after any sequence of next_char,
\* prev_char, next_line, prev_line, insert (a character, Backspace, Delete,
\* Enter), set_path and save, the cursor's line is a line of the buffer and
\* its column is at most the length of that line.
C1_CursorInBuffer ==
    editors.text.lines # <<>> =>
        /\ editors.text.cursor_position.line < Len(editors.text.lines)
        /\ editors.text.cursor_position.char <= Len(CurLine(editors.text))

\* C1 witness: the cursor has been moved to the end of a non-empty second line.
C1_Witness ==
    /\ Len(editors.text.lines) = 2
    /\ editors.text.cursor_position.line = 1
    /\ editors.text.cursor_position.char = Len(CurLine(editors.text))
    /\ editors.text.cursor_position.char > 0

\* C2: a key handled while the explorer's modal is open runs no explorer
\* command and no App command; should_stop, the focus and current_dir do not
\* change, and selected_index changes only when the task of this modal is run.
C2_ModalCapturesKeys ==
    [][ExplorerModalOpen =>
          /\ event'.calls = <<>>
          /\ should_stop' = should_stop
          /\ FileExplorer_is_focused(explorer') /\ ~EditorEnum_is_focused(editors', "text")
          /\ explorer'.current_dir = explorer.current_dir
          /\ explorer'.selected_index # explorer.selected_index => event'.ran = <<ModalTask>>]_vars

\* C2 witness: a key has been typed into the answer of the open Filter prompt.
C2_Witness ==
    /\ ExplorerModalOpen
    /\ explorer.modal.variant = "Question"
    /\ explorer.modal.message = "Filter"
    /\ explorer.modal.answer # <<>>
    /\ event.calls = <<>>

\* C3: a key handled while the focused text editor's modal is open runs no
\* App command, and a key other than 'y' and 'n' leaves the focus, the
\* explorer, the filesystem, info_message and should_stop as they were.
C3_EditorModalCapturesKeys ==
    [][EditorModalOpen =>
          /\ AppCalls(event'.calls) = {}
          /\ \A k \in EditKeys \ {"y", "n"} :
                KeyStep(k) => /\ EditorEnum_is_focused(editors', "text")
                              /\ explorer' = explorer
                              /\ disk' = disk
                              /\ info_message' = info_message
                              /\ should_stop' = should_stop]_vars

\* C4: the step that opens a prompt attempts no creation, deletion or rename
\* and leaves the filesystem as it was; a creation, deletion or rename is
\* attempted only in the step that handles the confirming key of the open
\* modal and runs that modal's task, and the filesystem changes in no other step.
C4_MutationOnlyOnConfirm ==
    [][/\ (~explorer.modal.is_open /\ explorer'.modal.is_open)
            => (Mutations(event'.ops) = {} /\ disk' = disk)
       /\ \A i \in Mutations(event'.ops) :
            /\ ConfirmStep
            /\ event'.ran = <<ModalTask>>
            /\ event'.ops[i].path = IF event'.ops[i].op = "create"
                                    THEN JoinPath(explorer.current_dir, explorer.modal.answer)
                                    ELSE explorer.modal.on_confirm.path
       /\ disk' # disk => \E i \in Mutations(event'.ops) : event'.ops[i].ok]_vars

\* C4 witness: a confirmed deletion has removed a file.
C4_Witness ==
    /\ \E i \in Mutations(event.ops) : event.ops[i].op = "remove" /\ event.ops[i].ok
    /\ DOMAIN disk # DOMAIN InitialDisk

\* C5: the step that handles the confirming key of the explorer's open modal
\* runs that modal's task once and leaves the modal closed, or replaced by the
\* Info modal of a failure; the step that handles the refusing key runs no
\* task and touches no file; a task is run in no other step, and after every
\* step no task is left on the channel.
C5_ConfirmedTaskRunsOnce ==
    [][/\ explorer'.channel = <<>>
       /\ event'.ran # <<>> => (ConfirmStep /\ event'.ran = <<ModalTask>>)
       /\ ConfirmStep =>
            /\ event'.ran = <<ModalTask>>
            /\ explorer'.modal.is_open =>
                  (explorer'.modal.variant = "Info" /\ explorer'.modal # explorer.modal)
       /\ RefuseStep =>
            /\ event'.ran = <<>>
            /\ event'.ops = <<>>
            /\ disk' = disk
            /\ ~explorer'.modal.is_open]_vars

\* C5 witness: a confirmed deletion has just been run and no modal is open.
C5_Witness ==
    /\ event.ran # <<>>
    /\ event.ran[1].op = "DeleteFile"
    /\ ~explorer.modal.is_open
    /\ explorer.channel = <<>>

\* C6: a save whose write fails leaves a dirty buffer dirty, and the buffer
\* goes from dirty to clean only in a step that saves with a successful
\* write or loads a file successfully.
C6_FailedSaveStaysDirty ==
    [][/\ (~editors.text.file_saved /\ FailedWrite(event'.ops)) => ~editors'.text.file_saved
       /\ (~editors.text.file_saved /\ editors'.text.file_saved)
            => (DoneWrite(event'.ops) \/ event'.calls = <<"set_path">>)]_vars

\* C7: Esc handled by the focused text editor while the buffer is dirty opens
\* the editor's modal and leaves the mode and the focus as they were; the
\* focus leaves the editor whose modal is open only in a step that confirms
\* the modal: the modal is closed and the buffer is written.
C7_DirtyGoBackIsGated ==
    [][/\ (EditorFocused /\ ~EditorModalOpen /\ ~editors.text.file_saved /\ KeyStep("Esc"))
            => /\ editors'.text.modal_open
               /\ editors'.text.mode = editors.text.mode
               /\ EditorEnum_is_focused(editors', "text")
       /\ (EditorModalOpen /\ ~EditorEnum_is_focused(editors', "text"))
            => (~editors'.text.modal_open /\ event'.ops # <<>>)]_vars

\* C8: when the explorer is focused, a readable directory is selected and the
\* key runs open_selected_file, the explorer descends into that directory with
\* the first entry selected, keeps the focus, and no editor is focused.
C8_EnterDescends ==
    [][(/\ ExplorerFocused
        /\ SelectedFile # NoPath
        /\ IsDir(disk, SelectedFile)
        /\ read_dir_entries(disk, SelectedFile).ok
        /\ Ran("explorer", "open_selected_file"))
       => /\ explorer'.current_dir = SelectedFile
          /\ explorer'.selected_index = 0
          /\ explorer'.entries = read_dir_entries(disk, SelectedFile).entries
          /\ FileExplorer_is_focused(explorer')
          /\ \A which \in {"preview", "text", "null"} : ~EditorEnum_is_focused(editors', which)]_vars

\* C8 witness: the explorer has descended into the directory /s and is focused.
C8_Witness ==
    /\ explorer.current_dir = <<"/", "s">>
    /\ event.calls = << <<"explorer", "open_selected_file">> >>
    /\ FileExplorer_is_focused(explorer)

\* C9: when the explorer is focused, a decodable regular file is selected and
\* the key runs open_selected_file, the text editor gets the focus, the
\* explorer loses it, and the text editor holds that file's path and its
\* decoded lines.
C9_EnterOpensSelectedFile ==
    [][(/\ ExplorerFocused
        /\ SelectedFile # NoPath
        /\ fs_read_to_string(disk, SelectedFile).ok
        /\ Ran("explorer", "open_selected_file"))
       => /\ EditorEnum_is_focused(editors', "text")
          /\ ~FileExplorer_is_focused(explorer')
          /\ editors'.text.file = SelectedFile
          /\ editors'.text.lines = Split(fs_read_to_string(disk, SelectedFile).text, NL)]_vars

\* C10: exactly one of the explorer and the text editor is focused, and
\* neither the preview explorer nor the null editor is.
C10_ExactlyOneFocused ==
    /\ FileExplorer_is_focused(explorer) # EditorEnum_is_focused(editors, "text")
    /\ ~EditorEnum_is_focused(editors, "preview")
    /\ ~EditorEnum_is_focused(editors, "null")

\* C10 witness: the focus has moved to the text editor and the explorer has lost it.
C10_Witness ==
    /\ EditorEnum_is_focused(editors, "text")
    /\ ~FileExplorer_is_focused(explorer)
    /\ event.calls = << <<"explorer", "open_selected_file">>, <<"app", "open_selected_file">> >>

\* The path names a file whose content cannot be read as text.
Unreadable(d, p) == p # NoPath /\ IsFile(d, p) /\ ~fs_read_to_string(d, p).ok

\* The step is a key event that the focused explorer consumed: its modal
\* handled the key, or one of its commands ran and returned true (the App's
\* commands are tried only for a key that nothing consumed).
ExplorerConsumed ==
    /\ ExplorerFocused
    /\ \/ explorer.modal.is_open
       \/ /\ event'.calls # <<>>
          /\ event'.calls[1][1] = "explorer"
          /\ AppCalls(event'.calls) = {}

\* C11: while the text editor is focused a step changes none of the explorer's
\* current_dir, entries and selected_index; and while the explorer is focused
\* a step that leaves its current_dir and selection as they were leaves the
\* text editor's lines and cursor position as they were.
C11_UnfocusedStateRetained ==
    [][/\ EditorEnum_is_focused(editors, "text") =>
            /\ explorer'.current_dir = explorer.current_dir
            /\ explorer'.entries = explorer.entries
            /\ explorer'.selected_index = explorer.selected_index
       /\ (/\ FileExplorer_is_focused(explorer)
           /\ FileExplorer_is_focused(explorer')
           /\ explorer'.current_dir = explorer.current_dir
           /\ explorer'.selected_index = explorer.selected_index
           /\ FileExplorer_get_selected_file(explorer') = SelectedFile)
          => /\ editors'.text.lines = editors.text.lines
             /\ editors'.text.cursor_position = editors.text.cursor_position]_vars

\* C12: while the explorer is focused with an unreadable file selected, a key
\* event it consumes that leaves that file selected ends with the null editor
\* active and carrying the error text, the explorer focused and its selection
\* as it was; and a step that runs the App's open_selected_file leaves the
\* text editor unfocused.
C12_UnreadableFileShowsPlaceholder ==
    [][(ExplorerFocused /\ Unreadable(disk, SelectedFile)) =>
          /\ (/\ ExplorerConsumed
              /\ FileExplorer_get_selected_file(explorer') = SelectedFile
              /\ Unreadable(disk', SelectedFile))
             => /\ info_message' # NoMessage
                /\ editors'.null.message = info_message'
                /\ FileExplorer_is_focused(explorer')
                /\ explorer'.selected_index = explorer.selected_index
          /\ (\E i \in 1..Len(event'.calls) : event'.calls[i] = <<"app", "open_selected_file">>)
             => ~EditorEnum_is_focused(editors', "text")]_vars

\* The explorer's directory, listing, selection, filter and sort criterion
\* are after the step what they were before it.
ExplorerFrame ==
    /\ explorer'.current_dir = explorer.current_dir
    /\ explorer'.entries = explorer.entries
    /\ explorer'.selected_index = explorer.selected_index
    /\ explorer'.name_filter = explorer.name_filter
    /\ explorer'.current_sort = explorer.current_sort

QuestionOpen == ExplorerModalOpen /\ explorer.modal.variant = "Question"

\* C13: the step that opens a Question modal, and every step that handles a
\* character, Backspace or Esc while it is open, leaves
\* the explorer's current_dir, entries, selected_index, name_filter and
\* current_sort and the filesystem as they were, runs no task and attempts no
\* filesystem operation; the step that handles Esc closes the modal.
C13_EscLeavesExplorerUntouched ==
    [][/\ (/\ ExplorerFocused
           /\ ~explorer.modal.is_open
           /\ explorer'.modal.is_open
           /\ explorer'.modal.variant = "Question")
          => (ExplorerFrame /\ disk' = disk)
       /\ (QuestionOpen /\ \E k \in QuestionKeys : KeyStep(k))
          => /\ ExplorerFrame
             /\ disk' = disk
             /\ event'.ran = <<>>
             /\ event'.ops = <<>>
       /\ (QuestionOpen /\ KeyStep("Esc"))
          => (~explorer'.modal.is_open /\ explorer'.channel = <<>>)]_vars

\* C13 witness: the move prompt opened on the second entry has had its answer
\* erased and retyped and has been dismissed, with the listing and the
\* filesystem as at the start.
C13_Witness ==
    /\ ~explorer.modal.is_open
    /\ explorer.modal.variant = "Question"
    /\ explorer.modal.message = "Move file"
    /\ explorer.modal.answer = <<"y">>
    /\ explorer.selected_index = 1
    /\ explorer.entries = read_dir_entries(InitialDisk, Root).entries
    /\ disk = InitialDisk

\* The explorer's delete prompt is open.
DeleteOpen ==
    /\ ExplorerModalOpen
    /\ explorer.modal.variant = "Confirmation"
    /\ explorer.modal.on_confirm.op = "DeleteFile"

\* The entries of a listing, as a set.
Listed(entries) == {entries[i] : i \in 1..Len(entries)}

\* C14: the step that runs delete_current_file on a selected entry p opens a
\* Confirmation modal whose task is DeleteFile(p); while the prompt is open the
\* captured path stays what it was; the step that handles 'y' attempts one
\* removal, of the captured path, and when it succeeds exactly p and what lies
\* below it is gone from the filesystem and p is not in the entries; the step
\* that handles 'n' leaves the entries and the filesystem as they were.
C14_DeleteRemovesCapturedPath ==
    [][/\ (/\ ExplorerFocused
           /\ ~explorer.modal.is_open
           /\ SelectedFile # NoPath
           /\ Ran("explorer", "delete_current_file"))
          => /\ explorer'.modal.is_open
             /\ explorer'.modal.variant = "Confirmation"
             /\ explorer'.modal.on_confirm = Closure("DeleteFile", SelectedFile)
       /\ (DeleteOpen /\ explorer'.modal.is_open /\ explorer'.modal.variant = "Confirmation")
          => explorer'.modal.on_confirm = explorer.modal.on_confirm
       /\ (DeleteOpen /\ KeyStep("y"))
          => /\ Len(event'.ops) = 1
             /\ event'.ops[1].op = "remove"
             /\ event'.ops[1].path = explorer.modal.on_confirm.path
             /\ event'.ops[1].ok
                => /\ DOMAIN disk' = (DOMAIN disk) \ Subtree(disk, explorer.modal.on_confirm.path)
                   /\ \A q \in DOMAIN disk' : disk'[q] = disk[q]
                   /\ explorer.modal.on_confirm.path \in DOMAIN disk
                   /\ explorer.modal.on_confirm.path \notin Listed(explorer'.entries)
       /\ (DeleteOpen /\ KeyStep("n"))
          => /\ explorer'.entries = explorer.entries
             /\ disk' = disk
             /\ event'.ops = <<>>]_vars

\* C14 witness: the delete prompt opened on the second entry, /b, has been
\* confirmed: /b is gone from the filesystem and from the entries.
C14_Witness ==
    /\ event.ran = <<Task("DeleteFile", <<"/", "b">>, <<>>, 0)>>
    /\ event.ops = <<FsOp("remove", <<"/", "b">>, NoPath, TRUE)>>
    /\ <<"/", "b">> \notin DOMAIN disk
    /\ <<"/", "b">> \notin Listed(explorer.entries)
    /\ <<"/", "a">> \in Listed(explorer.entries)

\* The removals and renames among the filesystem operations ops, and those
\* of them that failed.
Moves(ops) == {i \in 1..Len(ops) : ops[i].op \in {"remove", "rename"}}
FailedMoves(ops) == {i \in Moves(ops) : ~ops[i].ok}

\* C15: a step in which the removal or rename of a task fails ends with an
\* Info modal open that carries the failure message, with the explorer's
\* entries, selected_index and current_dir and the filesystem as they were
\* and no task left on the channel; a removal or rename is attempted only in
\* the step that confirms an open Confirmation or Question modal and runs
\* that modal's task, and none is attempted while an Info modal is open.
C15_FailedTaskReported ==
    [][/\ \A i \in FailedMoves(event'.ops) :
            /\ explorer'.modal.is_open
            /\ explorer'.modal.variant = "Info"
            /\ explorer'.modal.message = IF event'.ops[i].op = "remove"
                                         THEN "Could not delete" ELSE "Could not move file"
            /\ explorer'.entries = explorer.entries
            /\ explorer'.selected_index = explorer.selected_index
            /\ explorer'.current_dir = explorer.current_dir
            /\ disk' = disk
            /\ explorer'.channel = <<>>
       /\ Moves(event'.ops) # {} => (ConfirmStep /\ event'.ran = <<ModalTask>>)
       /\ (explorer.modal.is_open /\ explorer.modal.variant = "Info")
          => (event'.ops = <<>> /\ event'.ran = <<>>)]_vars

\* C15 witness: the removal of the second entry, /b, has failed: the Info
\* modal is open, /b is still selected and still on the filesystem.
C15_Witness ==
    /\ event.ops = <<FsOp("remove", <<"/", "b">>, NoPath, FALSE)>>
    /\ explorer.modal.is_open
    /\ explorer.modal.variant = "Info"
    /\ explorer.selected_index = 1
    /\ SelectedFile = <<"/", "b">>
    /\ <<"/", "b">> \in DOMAIN disk

\* The buffer and the cursor before the step.
Buf == editors.text.lines
CurL == editors.text.cursor_position.line
CurC == editors.text.cursor_position.char

Min(a, b) == IF a < b THEN a ELSE b

\* C16: a next_line or prev_line that moves the cursor to another line leaves
\* the lines as they were and sets the column to the smaller of the old
\* column and the length of the new line.
C16_LineMoveClampsToLength ==
    [][(/\ event'.calls \in {<<"next_line">>, <<"prev_line">>}
        /\ editors'.text.cursor_position.line # CurL)
       => /\ editors'.text.lines = Buf
          /\ editors'.text.cursor_position.char = Min(CurC, Len(CurLine(editors'.text)))]_vars

\* C17: after a step that inserts a character, Backspace handed to insert
\* yields the lines and the cursor of before the insertion.
C17_InsertThenBackspace ==
    [][(Len(event'.calls) = 1 /\ event'.calls[1] \in TextChars)
       => /\ TextEditor_insert(editors'.text, "Backspace").lines = Buf
          /\ TextEditor_insert(editors'.text, "Backspace").cursor_position
                = editors.text.cursor_position]_vars

\* C17 witness: a character has been inserted at the end of the second line.
C17_Witness ==
    /\ Len(event.calls) = 1 /\ event.calls[1] \in TextChars
    /\ Len(Buf) = 2
    /\ CurL = 1
    /\ CurC = 1

\* The buffer of the example of delete_forward: "ab", "cd" with the cursor
\* at the end of the first line.
AbCd ==
    [TextEditor_new EXCEPT !.lines = << <<"a", "b">>, <<"c", "d">> >>,
                           !.cursor_position = [line |-> 0, char |-> 2]]

\* C18: Delete with the cursor at the end of a line that is not the last
\* replaces that line and the next by their concatenation, the other lines
\* and the cursor staying as they were; Delete with the cursor inside a line
\* removes the character at the cursor and leaves the cursor as it was; and
\* "ab", "cd" with the cursor at (0, 2) becomes "abcd" with the cursor at (0, 2).
C18_DeleteForward ==
    [][/\ (event'.calls = <<"Delete">> /\ CurC = Len(Buf[CurL + 1]) /\ CurL < Len(Buf) - 1)
          => /\ editors'.text.lines =
                    SubSeq(Buf, 1, CurL) \o <<Buf[CurL + 1] \o Buf[CurL + 2]>>
                    \o SubSeq(Buf, CurL + 3, Len(Buf))
             /\ editors'.text.cursor_position = editors.text.cursor_position
       /\ (event'.calls = <<"Delete">> /\ CurC < Len(Buf[CurL + 1]))
          => /\ editors'.text.lines =
                    [Buf EXCEPT ![CurL + 1] = SubSeq(@, 1, CurC) \o SubSeq(@, CurC + 2, Len(@))]
             /\ editors'.text.cursor_position = editors.text.cursor_position
       /\ TextEditor_insert(AbCd, "Delete").lines = << <<"a", "b", "c", "d">> >>
       /\ TextEditor_insert(AbCd, "Delete").cursor_position = [line |-> 0, char |-> 2]]_vars

\* C18 witness: Delete at the end of the first of three lines has merged the
\* second into it; two lines are left and the cursor is at (0, 1).
C18_Witness ==
    /\ event.calls = <<"Delete">>
    /\ Buf = << <<"a">>, <<"q">> >>
    /\ CurL = 0
    /\ CurC = 1

\* C19: Backspace with the cursor at column 0 of a line that is not the first
\* replaces the previous line and this one by their concatenation and puts
\* the cursor on the previous line at the length it had; with the column
\* above 0 it removes the character before the cursor and moves the cursor
\* one to the left; at (0, 0) it changes neither the lines nor the cursor.
C19_DeleteBackward ==
    [][/\ (event'.calls = <<"Backspace">> /\ CurC = 0 /\ CurL > 0)
          => /\ editors'.text.lines =
                    SubSeq(Buf, 1, CurL - 1) \o <<Buf[CurL] \o Buf[CurL + 1]>>
                    \o SubSeq(Buf, CurL + 2, Len(Buf))
             /\ editors'.text.cursor_position = [line |-> CurL - 1, char |-> Len(Buf[CurL])]
       /\ (event'.calls = <<"Backspace">> /\ CurC > 0)
          => /\ editors'.text.lines =
                    [Buf EXCEPT ![CurL + 1] = SubSeq(@, 1, CurC - 1) \o SubSeq(@, CurC + 1, Len(@))]
             /\ editors'.text.cursor_position = [line |-> CurL, char |-> CurC - 1]
       /\ (event'.calls = <<"Backspace">> /\ CurC = 0 /\ CurL = 0)
          => /\ editors'.text.lines = Buf
             /\ editors'.text.cursor_position = editors.text.cursor_position]_vars

\* C19 witness: Backspace at the start of the third of three lines has merged
\* it into the empty second line; the cursor is at (1, 0).
C19_Witness ==
    /\ event.calls = <<"Backspace">>
    /\ Buf = << <<"a">>, <<"q">> >>
    /\ CurL = 1
    /\ CurC = 0

C21_CharMoveStaysOnLine ==
    [][/\ event'.calls \in {<<"next_char">>, <<"prev_char">>}
          => /\ editors'.text.lines = Buf
             /\ editors'.text.cursor_position.line = CurL
       /\ (event'.calls = <<"next_char">> /\ Buf # <<>>)
          => editors'.text.cursor_position.char =
                IF CurC = Len(Buf[CurL + 1]) THEN CurC ELSE CurC + 1
       /\ (event'.calls = <<"prev_char">> /\ Buf # <<>>)
          => editors'.text.cursor_position.char = IF CurC = 0 THEN 0 ELSE CurC - 1]_vars

\* C21 witness: next_char has been called with the cursor at the end of the
\* first of three lines, and the cursor is still there.
C21_Witness ==
    /\ event.calls = <<"next_char">>
    /\ Len(Buf) = 3
    /\ CurL = 0
    /\ CurC = Len(Buf[1])
    /\ CurC > 0

\* The command ids the binding table binds to a key in an owner's namespace.
BoundIds(owner, key_code) ==
    {b.command_id : b \in {c \in Listed(get_bindings) :
                               c.command_id[1] = owner /\ c.key_code = key_code}}

\* The command list of the owner the step dispatched on.
OwnerCommands ==
    CASE event'.owner = "text_editor" -> TextEditorCommands
      [] event'.owner = "app" -> AppCommands
      [] OTHER -> FileExplorer_get_commands(explorer')

\* The ids the step's key is bound to in the owner's namespace and the owner lists.
Invocable == BoundIds(event'.owner, event'.key) \cap Listed(OwnerCommands)

\* The owner the step dispatched on is as it was before the call.
OwnerUntouched ==
    CASE event'.owner = "text_editor" -> editors' = editors /\ disk' = disk /\ event'.ops = <<>>
      [] event'.owner = "app" ->
            /\ explorer' = explorer /\ editors' = editors /\ should_stop' = should_stop
            /\ info_message' = info_message /\ legend' = legend
      [] OTHER -> /\ explorer'.name = event'.owner
                  /\ explorer' = [explorer EXCEPT !.name = explorer'.name,
                                                  !.interactive = explorer'.interactive]

\* The step is the handler of command_id run on the owner, and its result returned.
HandlerRan(command_id) ==
    CASE event'.owner = "text_editor" ->
            \E io \in BOOLEAN :
               With(TextEditor_run(editors.text, disk, command_id, io),
                    LAMBDA r : /\ editors'.text = r.te /\ disk' = r.disk
                               /\ event'.ops = r.ops /\ event'.ret = r.ret)
      [] event'.owner = "app" ->
            /\ TheApp' = App_on_window_change(App_run(TheApp, disk, command_id), disk)
            /\ event'.ret
      [] OTHER ->
            With(FileExplorer_run([explorer EXCEPT !.name = explorer'.name,
                                                   !.interactive = explorer'.interactive],
                                  disk, command_id),
                 LAMBDA r : explorer' = r.ex /\ event'.ret = r.ret)

\* C22: a dispatch for an owner and a key returns false and leaves the owner
\* unchanged when no binding of the owner's namespace has the key or the
\* bound id is not in the owner's command list; otherwise exactly one handler
\* runs, the one bound to the key in that namespace, and its result is
\* returned.  A key bound only in another namespace invokes nothing.
C22_DispatchInvokesBoundHandler ==
    [][/\ Invocable = {} => event'.calls = <<>> /\ ~event'.ret /\ OwnerUntouched
       /\ Invocable # {} => /\ Len(event'.calls) = 1
                            /\ event'.calls[1] \in Invocable
                            /\ event'.calls[1][1] = event'.owner
                            /\ HandlerRan(event'.calls[1])]_vars

\* A key bound for the explorer only was dispatched on the text editor.
C22_Witness ==
    /\ "owner" \in DOMAIN event /\ event.owner = "text_editor" /\ event.key = "d"
    /\ BoundIds("explorer", "d") # {} /\ event.calls = <<>> /\ ~event.ret

\* C23: no two bindings of the table share the owner namespace and the key,
\* so the binding a dispatch resolves to does not depend on the table's order:
\* the key of every dispatch is bound to at most one id in the owner's namespace.
C23_BindingsUnique ==
    /\ \A i, j \in 1..Len(get_bindings) :
          (/\ get_bindings[i].command_id[1] = get_bindings[j].command_id[1]
           /\ get_bindings[i].key_code = get_bindings[j].key_code) => i = j
    /\ "owner" \in DOMAIN event => Cardinality(BoundIds(event.owner, event.key)) <= 1

\* Esc, bound in all three namespaces, was dispatched on the explorer and
\* resolved to the explorer's own binding.
C23_Witness ==
    /\ "owner" \in DOMAIN event /\ event.owner = "explorer" /\ event.key = "Esc"
    /\ Cardinality({b \in Listed(get_bindings) : b.key_code = "Esc"}) = 3
    /\ event.calls = << <<"explorer", "go_back">> >>

\* The explorer and the editors are as they were, focus flags aside.
ComponentsUntouched ==
    /\ [explorer' EXCEPT !.is_focused = explorer.is_focused] = explorer
    /\ [editors' EXCEPT !.text.is_focused = editors.text.is_focused,
                        !.preview.is_focused = editors.preview.is_focused] = editors

\* C24: an App command runs only for a key the focused component did not
\* consume.  When one runs it is the only one, no task ran, nothing was
\* written and the components are as they were, focus aside; 'q' typed in
\* Edit mode goes into the buffer and does not set should_stop; Esc with the
\* explorer focused and no modal open runs the explorer's go_back alone.
C24_AppCommandsOnlyWhenUnconsumed ==
    [][/\ AppCalls(event'.calls) # {}
          => /\ Cardinality(AppCalls(event'.calls)) = 1
             /\ event'.ran = <<>> /\ event'.ops = <<>> /\ disk' = disk
             /\ ComponentsUntouched
       /\ (/\ EditorFocused /\ ~EditorModalOpen /\ ActiveEditor = "text"
           /\ editors.text.mode = "Edit" /\ KeyStep("q"))
          => /\ should_stop' = should_stop
             /\ event'.calls = <<>>
             /\ editors'.text.is_focused
             /\ TotalChars(editors'.text.lines) = TotalChars(editors.text.lines) + 1
       /\ (ExplorerFocused /\ ~explorer.modal.is_open /\ KeyStep("Esc"))
          => /\ event'.calls = << <<"explorer", "go_back">> >>
             /\ FileExplorer_is_focused(explorer')]_vars

\* 'q' has been typed into the buffer in Edit mode and the program goes on.
C24_Witness ==
    /\ editors.text.is_focused /\ editors.text.mode = "Edit" /\ ~should_stop
    /\ event.calls = <<>>
    /\ \E i \in 1..Len(editors.text.lines) : "q" \in Listed(editors.text.lines[i])

\* C25: Esc with the explorer focused, no modal open and a readable parent
\* directory makes the parent the current directory and leaves the focus on
\* the explorer; Esc with the text editor focused in View mode on a saved
\* buffer gives the focus back to the explorer, whose directory and selection
\* stay as they were.
C25_GoBack ==
    [][/\ (/\ ExplorerFocused /\ ~explorer.modal.is_open /\ KeyStep("Esc")
           /\ Parent(explorer.current_dir) # NoPath
           /\ read_dir_entries(disk, Parent(explorer.current_dir)).ok)
          => /\ explorer'.current_dir = Parent(explorer.current_dir)
             /\ FileExplorer_is_focused(explorer')
             /\ ~editors'.text.is_focused
       /\ (/\ EditorFocused /\ ActiveEditor = "text" /\ ~EditorModalOpen
           /\ editors.text.mode = "View" /\ editors.text.file_saved /\ KeyStep("Esc"))
          => /\ FileExplorer_is_focused(explorer')
             /\ ~editors'.text.is_focused
             /\ explorer'.current_dir = explorer.current_dir
             /\ explorer'.selected_index = explorer.selected_index
             /\ explorer'.entries = explorer.entries]_vars

\* The App's go_back has returned the focus from a saved buffer in View mode
\* to the explorer, which still has the edited file selected.
C25_Witness ==
    /\ event.calls = << <<"app", "go_back">> >>
    /\ FileExplorer_is_focused(explorer) /\ ~editors.text.is_focused
    /\ editors.text.mode = "View" /\ editors.text.file_saved /\ ~editors.text.modal_open
    /\ SelectedFile # NoPath /\ editors.text.file = SelectedFile

\* An Options modal of the focused explorer is open.
OptionsOpen == ExplorerModalOpen /\ explorer.modal.variant = "Options"

\* C26: in an open Options modal with n choices a digit d in 1..n closes the
\* modal and runs the callback once with index d - 1; Esc closes it and runs
\* nothing; any other key (0, a digit above n, a letter, Enter) leaves the
\* modal open and the explorer and the filesystem as they were.
C26_OptionsModal ==
    [][OptionsOpen =>
          /\ \A n \in 1..explorer.modal.options :
                KeyStep(<<"1", "2", "3", "4">>[n])
                   => /\ ~explorer'.modal.is_open
                      /\ explorer'.modal.selected_index = n - 1
                      /\ event'.ran = <<Task("Sort", NoPath, <<>>, n - 1)>>
                      /\ explorer'.current_sort = n - 1
                      /\ explorer'.channel = <<>>
          /\ KeyStep("Esc")
                => /\ ~explorer'.modal.is_open
                   /\ event'.ran = <<>>
                   /\ explorer' = [explorer EXCEPT !.modal.is_open = FALSE]
                   /\ disk' = disk
          /\ \A k \in OptionKeys \ {"1", "2", "3", "Esc"} :
                KeyStep(k) => /\ explorer' = explorer
                              /\ event'.ran = <<>>
                              /\ disk' = disk]_vars

\* The second choice has been taken: the modal is closed and Sort(1) has run.
C26_Witness ==
    /\ explorer.modal.variant = "Options" /\ ~explorer.modal.is_open
    /\ explorer.modal.selected_index = 1
    /\ event.ran = <<Task("Sort", NoPath, <<>>, 1)>>
    /\ explorer.current_sort = 1

\* C27: in an open Question modal a character key appends the character to
\* the answer, Backspace removes the last character (nothing from an empty
\* answer) and the modal stays open; Enter closes the modal and hands the
\* callback the answer as it stands, so the payload is the initial answer
\* with the typed keys applied in order; Esc closes the modal and hands over
\* nothing.
C27_QuestionAnswer ==
    [][QuestionOpen =>
          /\ \A c \in AnswerChars :
                KeyStep(c) => /\ explorer'.modal = [explorer.modal EXCEPT !.answer = Append(@, c)]
                              /\ event'.ran = <<>>
          /\ KeyStep("Backspace")
                => /\ explorer'.modal =
                         [explorer.modal EXCEPT
                             !.answer = IF @ = <<>> THEN <<>> ELSE SubSeq(@, 1, Len(@) - 1)]
                   /\ event'.ran = <<>>
          /\ KeyStep("Enter")
                => /\ event'.ran = <<Task(explorer.modal.on_confirm.op,
                                          explorer.modal.on_confirm.path,
                                          explorer.modal.answer, 0)>>
                   /\ \/ explorer'.modal = Modal_close(explorer.modal)
                      \/ explorer'.modal.variant = "Info"
          /\ KeyStep("Esc")
                => /\ explorer'.modal = Modal_close(explorer.modal)
                   /\ event'.ran = <<>>]_vars

\* The move prompt was opened on /a, Backspace and 'y' were typed, and Enter
\* passed the answer "/y" to the callback.
C27_Witness ==
    event.ran = <<Task("MoveFile", <<"/", "a">>, <<"/", "y">>, 0)>>

C29_ModalLifecycle ==
    /\ ~explorer.modal.is_open /\ ~editors.text.modal_open /\ ~editors.preview.modal.is_open
    /\ [][/\ (ExplorerModalOpen /\ (ConfirmStep \/ RefuseStep))
             => \/ ~explorer'.modal.is_open
                \/ /\ explorer'.modal.variant = "Info"
                   /\ event'.ran # <<>>
          /\ (EditorModalOpen /\ (KeyStep("y") \/ KeyStep("n")))
             => ~editors'.text.modal_open]_vars

\* The letter key and the arrow key the text editor's movements are bound to.
MovementKeys ==
    {<<"next_char", "l">>, <<"next_char", "Right">>, <<"prev_char", "h">>,
     <<"prev_char", "Left">>, <<"next_line", "j">>, <<"next_line", "Down">>,
     <<"prev_line", "k">>, <<"prev_line", "Up">>}

\* C30: the binding table binds the text editor's next_char, prev_char,
\* next_line and prev_line each to its letter key and to the matching arrow
\* key, and binds explorer.sort_entries to some key; so an arrow key
\* dispatched on the text editor runs the movement.
C30_DefaultBindings ==
    /\ \A m \in MovementKeys : Binding("text_editor", m[1], m[2]) \in Listed(get_bindings)
    /\ \E b \in Listed(get_bindings) : b.command_id = <<"explorer", "sort_entries">>
    /\ ("owner" \in DOMAIN event /\ event.owner = "text_editor" /\ event.key = "Right")
       => event.calls = << <<"text_editor", "next_char">> >>

\* C31: the legend holds the command list of the component that has the
\* focus: the text editor's commands while the editor is focused, the
\* explorer's commands otherwise, however the focus came to be where it is.
C31_LegendFollowsFocus ==
    legend = IF EditorFocused
             THEN EditorEnum_get_commands_data(editors, ActiveEditor)
             ELSE FileExplorer_get_commands(explorer)

\* C32: while the text editor is focused in View mode no key changes its
\* lines; the lines change only with the editor focused in Edit mode, or when
\* a key consumed by the focused explorer reloads the editor through set_path.
C32_ViewModeKeepsLines ==
    [][/\ (EditorFocused /\ ActiveEditor = "text" /\ editors.text.mode = "View")
          => editors'.text.lines = editors.text.lines
       /\ editors'.text.lines # editors.text.lines
          => \/ EditorFocused /\ ~EditorModalOpen /\ editors.text.mode = "Edit"
             \/ ExplorerConsumed]_vars

\* The cursor has been moved, or the buffer saved, by a key in View mode: the
\* editor is focused in View mode on a saved buffer with the cursor off the origin.
C32_Witness ==
    /\ EditorFocused /\ ActiveEditor = "text" /\ editors.text.mode = "View"
    /\ editors.text.file_saved /\ editors.text.cursor_position.char > 0
    /\ editors.text.lines # <<>>

\* C33: after every key the focused explorer consumed, the editor for the
\* selection has been loaded from it: for a readable directory the preview
\* explorer's current_dir is the selection; for a decodable file the text
\* editor is bound to it, holds its content, has its cursor at the origin
\* and is not dirty.
C33_EditorSeededFromSelection ==
    [][ExplorerConsumed =>
          /\ (SelectedFile' # NoPath /\ read_dir_entries(disk', SelectedFile').ok)
             => editors'.preview.current_dir = SelectedFile'
          /\ (SelectedFile' # NoPath /\ fs_read_to_string(disk', SelectedFile').ok)
             => /\ editors'.text.file = SelectedFile'
                /\ editors'.text.lines = Split(fs_read_to_string(disk', SelectedFile').text, NL)
                /\ editors'.text.cursor_position = CursorPosition_new
                /\ editors'.text.file_saved]_vars

\* C34: as long as the unsaved-changes modal is never answered with 'n', a
\* dirty buffer stops being dirty only through a save: no step reloads it
\* from disk, which would clear file_saved without attempting a write.
C34_DirtyBufferNotReloaded ==
    [][(~editors.text.file_saved /\ editors'.text.file_saved) => event'.ops # <<>>]_vars

\* C35: the text editor's lines belong to the file its path names.  Where
\* nothing is edited, a buffer bound to a readable file holds that file's
\* content, and a save writes to the bound path the content read from that
\* very path, so no save changes the filesystem.
C35_PathAndLinesAgree ==
    [][/\ (/\ editors'.text.file # NoPath
           /\ fs_read_to_string(disk', editors'.text.file).ok)
          => editors'.text.lines = Split(fs_read_to_string(disk', editors'.text.file).text, NL)
       /\ event'.ops # <<>> => disk' = disk]_vars

\* C36: every command a component lists has a binding in the table, so each
\* command id handed to the legend is found there.
C36_ListedCommandsAreBound ==
    /\ \A c \in Listed(ExplorerCommands) \cup Listed(TextEditorCommands) :
          \E b \in Listed(get_bindings) : b.command_id = c
    /\ \A c \in Listed(legend) : \E b \in Listed(get_bindings) : b.command_id = c

\* The selection of an explorer is an index of its entries, or 0 when it has none.
SelectionInRange(ex) ==
    IF ex.entries = <<>> THEN ex.selected_index = 0 ELSE ex.selected_index < Len(ex.entries)

\* C37: in every reachable state the explorer's (and the preview explorer's)
\* selected_index is below the number of entries, or 0 when there are none,
\* whatever selections, directory changes and tasks came before; select_next
\* on the last entry and select_previous on the first leave it unchanged.
C37_SelectionInRange ==
    /\ SelectionInRange(explorer) /\ SelectionInRange(editors.preview)
    /\ [][/\ SelectionInRange(explorer') /\ SelectionInRange(editors'.preview)
          /\ (/\ Ran("explorer", "select_next_file")
              /\ explorer.selected_index = Len(explorer.entries) - 1)
             => explorer'.selected_index = explorer.selected_index
          /\ (Ran("explorer", "select_previous_file") /\ explorer.selected_index = 0)
             => explorer'.selected_index = explorer.selected_index]_vars

\* The last of three entries was selected and has been deleted: two entries
\* are left and the selection is back at the first.
C37_Witness ==
    /\ event.ran # <<>> /\ event.ran[1].op = "DeleteFile" /\ event.ran[1].path = <<"/", "s">>
    /\ event.ops # <<>> /\ event.ops[1].ok
    /\ Len(explorer.entries) = 2 /\ explorer.selected_index = 0

\* C38: the text editor is in Edit mode only while it has the focus; whenever
\* the explorer is focused the text editor is in View mode.
C38_EditModeOnlyWhileFocused ==
    /\ editors.text.mode = "Edit"
       => editors.text.is_focused /\ ~FileExplorer_is_focused(explorer)
    /\ FileExplorer_is_focused(explorer) => editors.text.mode = "View"

\* The focus is back on the explorer after an edit: the buffer is dirty, so
\* the editor has been in Edit mode, and it is in View mode now.
C38_Witness ==
    /\ FileExplorer_is_focused(explorer) /\ ~editors.text.is_focused
    /\ ~editors.text.file_saved /\ editors.text.mode = "View"

\* The text of the file the text editor is bound to, as it is on disk.
BoundText(d) == fs_read_to_string(d, editors.text.file).text

\* C39: what set_path loads, get_text gives back unchanged, and a save of a
\* buffer that holds the lines of its file as set_path splits them writes
\* the file's own text: splitting on the line separator and joining with it
\* is the identity, for the empty text and a text ending in a separator too.
C39_LoadSaveRoundTrip ==
    [][/\ event'.calls = <<"set_path">>
          => TextEditor_get_text(editors'.text) = fs_read_to_string(disk, editors'.text.file).text
       /\ (/\ event'.calls = <<"save">> /\ event'.ops[1].ok
           /\ fs_read_to_string(disk, editors.text.file).ok
           /\ editors.text.lines = Split(BoundText(disk), NL))
          => disk' = disk]_vars

\* A file whose text ends in a line separator has been saved from the buffer
\* that holds its two lines, the second one empty.
C39_Witness ==
    /\ event.calls = <<"save">> /\ event.ops[1].ok
    /\ BoundText(disk) = <<"q", NL>>
    /\ editors.text.lines = << <<"q">>, <<>> >>
====
